---- MODULE Spec2Model ----
(***************************************************************************)
(* Packing-schedule MILP formulations (Pyomo).  The repository builds      *)
(* several variants of one scheduling model, hands them to an external     *)
(* MILP solver and reads the solved variable values back.                  *)
(*                                                                         *)
(* The state is the Pyomo model object of one variant: its parameters      *)
(* (bound from the input data at construction) and the values of its       *)
(* decision variables.  The external solver is a black box that may return *)
(* ANY point of the variables' domains that satisfies every constraint     *)
(* rule; it is modelled as a sequence of nondeterministic steps, one per   *)
(* constraint module, each choosing values for the variables that module   *)
(* introduces, guarded by exactly the rules of that module.  Each          *)
(* constraint rule of the source is one operator below, written over the   *)
(* state variables as the rule is written over the Pyomo model `m`.        *)
(***************************************************************************)
EXTENDS Integers, FiniteSets, Sequences, TLC

VARIABLES
    variant,          \* which formulation the model object belongs to
    stage,            \* position of the build / solve / extract pipeline
    n_done,           \* number of orders whose assignment row is fixed
    p,                \* processing_time parameter
    a,                \* worker_availability parameter
    due,              \* due_date parameter
    alpha,            \* reserved_capacity parameter, in percent
    x,                \* assignment variable: index tuples whose value is 1
    u,                \* line-in-use indicator
    w_working,        \* worker working indicator
    time_start,       \* start time per order
    time_completion,  \* completion time per order
    late,             \* late indicator per order
    lateness,         \* lateness per order
    m,                \* worker movement indicator per worker and slot
    time_ship,        \* shipping time per order (Problem_3)
    ship_early,       \* ships-before-due indicator per order
    ship_late,        \* ships-after-due indicator per order
    wip_indicator,    \* work-in-progress indicator per order and slot
    wip,              \* number of orders in progress per slot
    inv0,             \* initial_inventory parameter
    timestart,        \* start time per order (simplified models)
    timecompletion,   \* completion time per order (simplified models)
    ship,             \* shipping variable: index pairs whose value is 1
    timeship,         \* shipping time per order
    prod,             \* units produced per order and slot
    inv,              \* inventory per order and slot 0..T
    hasinv,           \* has-inventory indicator per order and slot
    workersused,      \* workers active per slot
    workersmax,       \* maximum workforce level
    workersmin,       \* minimum workforce level
    workforcerange,   \* workforce range
    order_type,       \* order_type parameter (event-based model)
    setup_time,       \* setup_time parameter
    start,            \* start time per order (event-based model)
    complete,         \* completion time per order (event-based model)
    y,                \* sequencing indicator per pair of orders
    t_event,          \* time of each event
    started,          \* started indicator per order and event
    notcomplete,      \* not-complete indicator per order and event
    is_active,        \* active indicator per order and event
    n_demands,        \* number of demands (event-based model)
    prodtype,         \* demand_type parameter (event-based model)
    qty,              \* demand_qty parameter (event-based model)
    prodorder,        \* order-produced-before-demand indicator
    prodbefore,       \* units of a type produced before a demand ships
    shipped,          \* demand-shipped-no-later-than-demand indicator
    shapes,           \* shapes of the input arrays
    time_limit,       \* time_limit argument of solve(): <<>> stands for None
    termination,      \* results.solver.termination_condition
    loaded,           \* the variable values are loaded into the model
    result,           \* the dictionary solve() returns
    solution          \* result of get_solution()

vars == <<variant, stage, n_done, p, a, due, alpha, x, u, w_working,
          time_start, time_completion, late, lateness, m, time_ship,
          ship_early, ship_late, wip_indicator, wip, inv0, timestart,
          timecompletion, ship, timeship, prod, inv, hasinv, workersused,
          workersmax, workersmin, workforcerange, order_type, setup_time,
          start, complete, y, t_event, started, notcomplete, is_active,
          n_demands, prodtype, qty, prodorder, prodbefore, shipped, shapes,
          time_limit, termination, loaded, result, solution>>

\* the parameters, fixed at construction
params == <<variant, p, a, due, alpha, inv0, order_type, setup_time,
           n_demands, prodtype, qty, shapes, time_limit>>

\* what solve() sets
solve_vars == <<termination, loaded, result>>

\* the variables only the worker-explicit model constrains
we_vars == <<w_working, time_start, time_completion, late, lateness>>

\* the variables only the Problem_3 modules of the worker-explicit model
\* constrain
problem3_vars == <<m, time_ship, ship_early, ship_late, wip_indicator, wip>>

\* the variables only the simplified models constrain
simple_vars == <<timestart, timecompletion, ship, timeship, prod, inv, hasinv,
                 workersused, workersmax, workersmin, workforcerange>>

\* the variables only the event-based model constrains
event_vars == <<start, complete, y, t_event, started, notcomplete, is_active,
               prodorder, prodbefore, shipped>>

not_we == <<simple_vars, event_vars>>

not_simple == <<we_vars, event_vars>>

not_event == <<w_working, time_start, time_completion, timestart,
               timecompletion, timeship, prod, hasinv>>

\* the variables the shipping and wip modules of the event-based model
\* introduce
demand_vars == <<prodorder, prodbefore, shipped, ship, inv>>

(***************************************************************************)
(* Bounds of the model: dimensions of the input data and ranges of the     *)
(* input values.                                                           *)
(***************************************************************************)
n_orders == 2

n_lines == 2

n_timeslots == 5

n_workers == 1

MaxP == 2

MaxDue == 4

MaxOnes == 2

MaxInv0 == 1

\* data['n_workers'] of the simplified models, where it only bounds the
\* workforce variables
n_workers_simple == 2

\* A real-valued solver value v is held as the whole number v * Resolution
\* (a grid of 1 / Resolution).
Resolution == 2

n_unique_types == 2

\* data['T_max'], the planning horizon of the event-based model
T_max == 2

\* largest setup time, in grid steps
MaxSetup == 1

MaxDemands == 1

\* Of the indicators a constraint bounds on one side only (m from below,
\* wip_indicator from above), at most MaxSlack entries differ from their
\* bound in a solution.
MaxSlack == 1

\* largest value of the unconstrained lateness of the simplified model
MaxLatenessSimple == 1

MaxDueEvent == 1

ORDERS == 1..n_orders

LINES == 1..n_lines

TIME == 1..n_timeslots

WORKERS == 1..n_workers

TYPES == 1..n_unique_types

EVENTS == 1..(2 * n_orders)

\* the pairs (i, k) for which the sequencing constraints are not skipped;
\* y[i, k] for i >= k occurs in no constraint
OrderPairs == {e \in ORDERS \X ORDERS : e[1] < e[2]}

(***************************************************************************)
(* Helpers: Python's sum() over a generator, and sets of index tuples.     *)
(***************************************************************************)
\* Sum(S): the sum of the terms of S, a set of <<index, term>> pairs, as in
\* Python's sum(term for index in ... if ...).
RECURSIVE SumTerms(_)
SumTerms(S) ==
    IF S = {} THEN 0
    ELSE LET e == CHOOSE e \in S : TRUE
         IN  CHOOSE r \in {e[2] + SumTerms(R) : R \in {S \ {e}}} : TRUE

Sum(S) == CHOOSE r \in {SumTerms(R) : R \in {S}} : TRUE

RECURSIVE UpTo(_, _)
UpTo(Idx, n) ==
    IF n = 0 THEN {{}}
    ELSE LET prev == UpTo(Idx, n - 1)
         IN  prev \cup {S \cup {e} : S \in prev, e \in Idx}

Binary == {0, 1}

(***************************************************************************)
(* solve(): the termination condition the solver reports, whether the      *)
(* variable values are loaded into the model, and the returned dictionary. *)
(* A solver step sequence that ends has found a point that satisfies every *)
(* constraint, so the solver holds an incumbent.                           *)
(***************************************************************************)
None == "None"

\* the number pyo.value(model.objective) of a model with loaded values
ObjectiveValue == "pyo.value(model.objective)"

\* time limit, in seconds, passed to solve()
TimeLimit == 120

\* without a limit the solver runs until it has proved optimality; with a
\* limit it may stop earlier, with an incumbent it could not prove optimal
terminations ==
    IF time_limit = <<>> THEN {"optimal"}
    ELSE {"optimal", "feasible", "maxTimeLimit"}

\* PackingScheduleModel.solve: solver.solve(model) loads the incumbent by
\* default; objective_value is set for the optimal condition only
solve_explicit(tc) ==
    [loaded |-> TRUE,
     result |-> [termination_condition |-> tc,
                 objective_value |->
                    IF tc = "optimal" THEN ObjectiveValue ELSE None]]

\* solve of the simplified and event-based models: the solver is told not
\* to load; the values are loaded and the objective is evaluated for the
\* conditions optimal and feasible
solve_simple(tc) ==
    [loaded |-> tc \in {"optimal", "feasible"},
     result |-> [status |-> tc,
                 objective_value |->
                    IF tc \in {"optimal", "feasible"} THEN ObjectiveValue
                    ELSE None]]

\* the whole number n as a real solver value
Real(n) == n * Resolution

\* Python's int() of a real solver value: truncation to a whole number
int(v) == Real(v \div Resolution)

(***************************************************************************)
(* Worker-explicit discrete-time model (variant "worker_explicit").        *)
(* Sets as in PackingScheduleModel._define_sets; processing times are      *)
(* whole numbers of slots, so int(m.p[i, j]) is m.p[i, j] itself (a        *)
(* fractional processing time makes time_completion, an integer variable,  *)
(* unsatisfiable and is never part of a solution).                         *)
(***************************************************************************)
\* m.ship[i, t], a Binary variable
ship2(i, t) == IF <<i, t>> \in ship THEN 1 ELSE 0

\* the value initial_inventory_rule and inventory_balance_rule give inv[i, t]
RECURSIVE inventory(_, _)
inventory(i, t) ==
    IF t = 0 THEN inv0[i]
    ELSE inventory(i, t - 1) + prod[i, t] - ship2(i, t)

\* the worker-explicit models: PackingScheduleModel, and PackingScheduleModel
\* with the Problem_3 modules (worker movement, shipping decisions, WIP)
ExplicitVariants == {"worker_explicit", "problem_3"}

\* m.x[i, j, t, w], a Binary variable
x4(i, j, t, w) == IF <<i, j, t, w>> \in x THEN 1 ELSE 0

JTW == LINES \X TIME \X WORKERS

ITW == ORDERS \X TIME \X WORKERS

one_assignment_at_most(i) ==
    Sum({<<e, x4(i, e[1], e[2], e[3])>> : e \in JTW}) <= 1

one_assignment_rule(i) ==
    Sum({<<e, x4(i, e[1], e[2], e[3])>> : e \in JTW}) = 1

line_capacity_started_before(j, tau) ==
    LET Idx == {e \in ORDERS \X WORKERS \X TIME :
                    e[3] < tau /\ tau < e[3] + p[e[1], j]}
    IN  Sum({<<e, x4(e[1], j, e[3], e[2])>> : e \in Idx}) <= u[j]

\* line_capacity_rule with the changeover s[i, k, j] to the other orders
\* added to the slots order i holds the line
line_capacity_with_setup(j, tau) ==
    LET Idx == {e \in ORDERS \X WORKERS \X TIME :
                    e[3] <= tau /\ \E k \in ORDERS :
                        tau < e[3] + p[e[1], j] + setup_time[e[1], k, j]}
    IN  Sum({<<e, x4(e[1], j, e[3], e[2])>> : e \in Idx}) <= u[j]

line_capacity_rule(j, tau) ==
    LET Idx == {e \in ORDERS \X WORKERS \X TIME :
                    e[3] <= tau /\ tau < e[3] + p[e[1], j]}
    IN  Sum({<<e, x4(e[1], j, e[3], e[2])>> : e \in Idx}) <= u[j]

\* expr of worker_movement_rule
worker_movement_expr(w, j, t) ==
    Sum({<<i, x4(i, j, t, w) - x4(i, j, t - 1, w)>> : i \in ORDERS})

\* worker_movement_rule over every start up to slot t instead of the
\* difference between slots t and t - 1
worker_movement_cumulative(w, j, t) ==
    IF t = 1 THEN TRUE
    ELSE m[w, t] >= Sum({<<e, x4(e[1], j, e[2], w)>> :
                            e \in {f \in ORDERS \X TIME : f[2] <= t}})

\* Constraint.Skip for t = 1
worker_movement_rule(w, j, t) ==
    IF t = 1 THEN TRUE ELSE m[w, t] >= worker_movement_expr(w, j, t)

\* BIG_M of the ship-early and ship-late indicator constraints
BIG_M == n_timeslots * 1000

\* expr of wip_indicator_rule: the order is being processed in slot t
wip_indicator_expr(i, t) ==
    LET Idx == {e \in LINES \X WORKERS \X TIME :
                    e[3] <= t /\ t < e[3] + p[i, e[1]]}
    IN  Sum({<<e, x4(i, e[1], e[3], e[2])>> : e \in Idx})

\* alpha is held in percent, so both sides are multiplied by 100.
reserved_line_capacity_rule ==
    LET Idx == ORDERS \X LINES \X TIME \X WORKERS
        total_usage ==
            Sum({<<e, x4(e[1], e[2], e[3], e[4]) * p[e[1], e[2]]>> : e \in Idx})
    IN  100 * total_usage <= (100 - alpha) * n_lines * n_timeslots

line_in_use_lower_dropped(j) == TRUE

line_in_use_lower_rule(j) ==
    u[j] <= Sum({<<e, x4(e[1], j, e[2], e[3])>> : e \in ITW})

worker_working_at_least(w, tau) ==
    LET Idx == {e \in ORDERS \X LINES \X TIME :
                    e[3] <= tau /\ tau < e[3] + p[e[1], e[2]]}
    IN  Sum({<<e, x4(e[1], e[2], e[3], w)>> : e \in Idx}) >= w_working[w, tau]

worker_working_rule(w, tau) ==
    LET Idx == {e \in ORDERS \X LINES \X TIME :
                    e[3] <= tau /\ tau < e[3] + p[e[1], e[2]]}
    IN  Sum({<<e, x4(e[1], e[2], e[3], w)>> : e \in Idx}) = w_working[w, tau]

\* the right-hand side of workers_used_rule of the worker-explicit model
workers_used_explicit(t) == Sum({<<w, w_working[w, t]>> : w \in WORKERS})

workers_min_rule(t) == workersused[t] >= workersmin

reserved_worker_capacity_rule ==
    LET WT == WORKERS \X TIME
    IN  100 * Sum({<<e, w_working[e[1], e[2]]>> : e \in WT})
            <= (100 - alpha) * Sum({<<e, a[e[1], e[2]]>> : e \in WT})

completion_time_without_processing(i) ==
    time_completion[i] =
        Sum({<<e, e[2] * x4(i, e[1], e[2], e[3])>> : e \in JTW})

completion_time_rule(i) ==
    time_completion[i] =
        Sum({<<e, (e[2] + p[i, e[1]]) * x4(i, e[1], e[2], e[3])>> : e \in JTW})

lateness_lower_off_by_one(i) ==
    lateness[i] >= time_completion[i] - due[i] - 1

lateness_lower_rule(i) == lateness[i] >= time_completion[i] - due[i]

\* late_indicator_upper_rule with one horizon of slack
late_indicator_upper_slack(i) ==
    lateness[i] <= n_timeslots * late[i] + n_timeslots

late_indicator_upper_rule(i) == lateness[i] <= n_timeslots * late[i]

late_indicator_lower_rule(i) ==
    time_completion[i] >= due[i] - n_timeslots * (1 - late[i])

(***************************************************************************)
(* Input data of the worker-explicit model.  The inputs explored are those *)
(* that differ from the default (every processing time 1, every worker     *)
(* always available, every due date beyond the horizon) in one parameter   *)
(* array, under each uniform processing time.                              *)
(***************************************************************************)
UniformP == {[e \in ORDERS \X LINES |-> q] : q \in 1..MaxP}

ProcessingTimes ==
    UniformP \cup
    {[e \in ORDERS \X LINES |-> IF e = f THEN q ELSE 1] :
        f \in ORDERS \X LINES, q \in 1..MaxP}

AlwaysAvailable == [e \in WORKERS \X TIME |-> 1]

Availabilities ==
    {AlwaysAvailable} \cup
    {[e \in WORKERS \X TIME |-> IF e = f THEN 0 ELSE 1] : f \in WORKERS \X TIME}

FarDue == n_timeslots + 2

NoDueDates == [i \in ORDERS |-> FarDue]

\* every order is due a whole horizon after the horizon ends
DueBeyondHorizon == [i \in ORDERS |-> 2 * n_timeslots]

DueDates ==
    {[i \in ORDERS |-> IF i = k THEN d ELSE FarDue] : k \in ORDERS, d \in 1..MaxDue}

NoSolution == [assignments |-> <<>>]

TIME_WITH_ZERO == 0..n_timeslots

NoInitialInventory == [i \in ORDERS |-> 0]

OneType == [i \in ORDERS |-> 1]

NoSetup == [e \in TYPES \X TYPES |-> 0]

\* data['setup_time'] of the discrete-time models, [i, k, j]: zero on the
\* diagonal and the same changeover between every two different orders
SetupTensors ==
    {[e \in ORDERS \X ORDERS \X LINES |-> IF e[1] = e[2] THEN 0 ELSE c] :
        c \in 0..MaxSetup}

NoSetupTensor == [e \in ORDERS \X ORDERS \X LINES |-> 0]

\* no variable has a value loaded from the solver yet
\* an input without demands: the demand arrays are empty
NoDemands ==
    /\ n_demands = 0
    /\ prodtype = <<>>
    /\ qty = <<>>

\* no variable has a value yet
NoValues ==
    /\ n_done = 0
    /\ termination = None
    /\ loaded = FALSE
    /\ result = None
    /\ x = {}
    /\ u = [j \in LINES |-> 0]
    /\ w_working = [e \in WORKERS \X TIME |-> 0]
    /\ time_start = [i \in ORDERS |-> 1]
    /\ time_completion = [i \in ORDERS |-> 1]
    /\ late = [i \in ORDERS |-> 0]
    /\ lateness = [i \in ORDERS |-> 0]
    /\ m = [e \in WORKERS \X TIME |-> 0]
    /\ time_ship = [i \in ORDERS |-> 1]
    /\ ship_early = [i \in ORDERS |-> 0]
    /\ ship_late = [i \in ORDERS |-> 0]
    /\ wip_indicator = [e \in ORDERS \X TIME |-> 0]
    /\ wip = [t \in TIME |-> 0]
    /\ timestart = [i \in ORDERS |-> 1]
    /\ timecompletion = [i \in ORDERS |-> 1]
    /\ ship = {}
    /\ timeship = [i \in ORDERS |-> 1]
    /\ prod = [e \in ORDERS \X TIME |-> 0]
    /\ inv = [e \in ORDERS \X TIME_WITH_ZERO |-> 0]
    /\ hasinv = [e \in ORDERS \X TIME |-> 0]
    /\ workersused = [t \in TIME |-> 0]
    /\ workersmax = 0
    /\ workersmin = 0
    /\ workforcerange = 0
    /\ start = [i \in ORDERS |-> 0]
    /\ complete = [i \in ORDERS |-> 0]
    /\ prodorder = <<>>
    /\ prodbefore = <<>>
    /\ shipped = <<>>
    /\ y = [e \in OrderPairs |-> 0]
    /\ t_event = [e \in EVENTS |-> 0]
    /\ started = [e \in ORDERS \X EVENTS |-> 0]
    /\ notcomplete = [e \in ORDERS \X EVENTS |-> 0]
    /\ is_active = [e \in ORDERS \X EVENTS |-> 0]
    /\ solution = NoSolution

\* the constrained-capacity input: one worker, orders of MaxP slots that fit
\* the horizon one after the other, every order due when the first one can
\* complete, and 10 percent reserved capacity
LongestP == [e \in ORDERS \X LINES |-> MaxP]

TightDueDates == [i \in ORDERS |-> 1 + MaxP]

ConstrainedCapacity ==
    /\ p = LongestP
    /\ a = AlwaysAvailable
    /\ due = TightDueDates
    /\ alpha = 10

NothingSolved == stage = "assign" /\ NoValues

InitWorkerExplicit ==
    /\ variant = "worker_explicit"
    /\ \/ p \in ProcessingTimes /\ a = AlwaysAvailable /\ due = NoDueDates
                                /\ alpha = 0
       \/ p \in UniformP /\ a \in Availabilities /\ due = NoDueDates
                         /\ alpha = 0
       \/ p \in UniformP /\ a = AlwaysAvailable /\ due \in DueDates
                         /\ alpha = 0
       \/ ConstrainedCapacity
       \/ p = LongestP /\ a = AlwaysAvailable /\ due = DueBeyondHorizon
                       /\ alpha = 0
    /\ setup_time \in IF p = LongestP /\ alpha = 0 /\ due = NoDueDates
                           /\ a = AlwaysAvailable
                       THEN SetupTensors ELSE {NoSetupTensor}
    /\ inv0 = NoInitialInventory
    /\ order_type = OneType
    /\ NoDemands
    /\ NothingSolved

\* the Problem_3 input: one worker, orders of MaxP slots that fit the horizon
\* one after the other, the orders due one after the other in the last slots
InitProblem3 ==
    /\ variant = "problem_3"
    /\ p = LongestP
    /\ a = AlwaysAvailable
    /\ due = [i \in ORDERS |-> n_timeslots - n_orders + i]
    /\ alpha = 0
    /\ inv0 = NoInitialInventory
    /\ order_type = OneType
    /\ setup_time = NoSetupTensor
    /\ NoDemands
    /\ NothingSolved

(***************************************************************************)
(* The solver, worker-explicit model: one step per constraint module.      *)
(***************************************************************************)
\* add_assignment_constraints: the row x[i, ., ., .] of the next order.
SolveAssignment ==
    /\ variant \in ExplicitVariants
    /\ stage = "assign"
    /\ n_done < n_orders
    /\ \E i \in {n_done + 1}, row \in UpTo(JTW, MaxOnes) :
          /\ x' = x \cup {<<i, e[1], e[2], e[3]>> : e \in row}
          /\ one_assignment_rule(i)'
    /\ n_done' = n_done + 1
    /\ stage' = IF n_done + 1 = n_orders THEN "capacity" ELSE "assign"
    /\ UNCHANGED <<params, not_we, u, we_vars, solution>>
    /\ UNCHANGED solve_vars
    /\ UNCHANGED problem3_vars

\* add_capacity_constraints: the line-in-use indicators u[j].
SolveCapacity ==
    /\ variant \in ExplicitVariants
    /\ stage = "capacity"
    /\ UNCHANGED <<params, x>>
    /\ \E uu \in [LINES -> Binary] :
          /\ u' = uu
          /\ \A j \in LINES, tau \in TIME : line_capacity_rule(j, tau)'
          /\ reserved_line_capacity_rule'
          \* line_in_use_rule
          /\ \A j \in LINES :
                (Sum({<<e, x4(e[1], j, e[2], e[3])>> : e \in ITW})
                    <= u[j] * n_orders * n_timeslots)'
          /\ \A j \in LINES : line_in_use_lower_rule(j)'
    /\ stage' = "worker"
    /\ UNCHANGED <<not_we, n_done, we_vars, solution>>
    /\ UNCHANGED solve_vars
    /\ UNCHANGED problem3_vars

\* add_worker_constraints: the working indicators w_working[w, t].
SolveWorker ==
    /\ variant \in ExplicitVariants
    /\ stage = "worker"
    /\ UNCHANGED <<params, x>>
    /\ \E ww \in [WORKERS \X TIME -> Binary] :
          /\ w_working' = ww
          \* worker_availability_rule
          /\ \A w \in WORKERS, t \in TIME :
                (w_working[w, t] <= a[w, t])'
          /\ \A w \in WORKERS, tau \in TIME : worker_working_rule(w, tau)'
          /\ reserved_worker_capacity_rule'
    /\ stage' = IF variant = "problem_3" THEN "movement" ELSE "otif"
    /\ UNCHANGED <<not_we, n_done, u, time_start, time_completion, late,
                   lateness, solution>>
    /\ UNCHANGED solve_vars
    /\ UNCHANGED problem3_vars

\* add_worker_constraints, Problem_3: the movement indicators m[w, t].
SolveMovement ==
    /\ variant = "problem_3"
    /\ stage = "movement"
    /\ UNCHANGED <<params, x>>
    /\ \E mm \in [WORKERS \X TIME -> Binary] :
          /\ m' = mm
          /\ \A w \in WORKERS, j \in LINES, t \in TIME :
                worker_movement_rule(w, j, t)'
          /\ Cardinality({e \in WORKERS \X TIME : mm[e] = 1 /\ \A j \in LINES :
                e[2] = 1 \/ worker_movement_expr(e[1], j, e[2]) < 1}) <= MaxSlack
    /\ stage' = "otif"
    /\ UNCHANGED <<not_we, n_done, u, we_vars, solution>>
    /\ UNCHANGED <<time_ship, ship_early, ship_late, wip_indicator, wip>>
    /\ UNCHANGED solve_vars

\* time_start and time_completion: NonNegativeIntegers, bounds (1, n_timeslots)
TimeDomain == 1..n_timeslots

\* add_otif_constraints: start and completion times.
SolveTimes ==
    /\ variant \in ExplicitVariants
    /\ stage = "otif"
    /\ UNCHANGED <<params, x>>
    /\ \E ts \in [ORDERS -> TimeDomain] :
          /\ time_start' = ts
          \* start_time_rule
          /\ \A i \in ORDERS :
                (time_start[i] = Sum({<<e, e[2] * x4(i, e[1], e[2], e[3])>> : e \in JTW}))'
    /\ \E tc \in [ORDERS -> TimeDomain] :
          /\ time_completion' = tc
          /\ \A i \in ORDERS : completion_time_rule(i)'
    /\ stage' = "workforce"
    /\ UNCHANGED <<not_we, n_done, u, w_working, late, lateness, solution>>
    /\ UNCHANGED solve_vars
    /\ UNCHANGED problem3_vars

\* add_workforce_constraints: workers_used, workers_max and workers_min,
\* NonNegativeIntegers with bounds (0, n_workers), and the workforce range
\* of the objective.  The deviation and change variables are unbounded
\* differences that every workers_used admits; they are not part of the
\* state.
SolveWorkforceExplicit ==
    /\ variant \in ExplicitVariants
    /\ stage = "workforce"
    /\ UNCHANGED <<params, x, w_working>>
    /\ workersused' = [t \in TIME |-> Real(workers_used_explicit(t))]
    /\ \A t \in TIME : workersused'[t] \in {Real(n) : n \in 0..n_workers}
    /\ \E wmax \in {Real(n) : n \in 0..n_workers},
          wmin \in {Real(n) : n \in 0..n_workers} :
          /\ workersmax' = wmax
          /\ workersmin' = wmin
          \* workers_max_rule
          /\ \A t \in TIME :
                (workersmax >= workersused[t])'
          /\ \A t \in TIME : workers_min_rule(t)'
    \* workforce_range of ObjectiveManager._workforce_term
    /\ workforcerange' = workersmax' - workersmin'
    /\ stage' = "late"
    /\ UNCHANGED <<timestart, timecompletion, ship, timeship, prod, inv, hasinv,
                   event_vars, we_vars, n_done, u, solution>>
    /\ UNCHANGED solve_vars
    /\ UNCHANGED problem3_vars

\* add_otif_constraints: lateness (NonNegativeIntegers) and late (Binary).
SolveLateness ==
    /\ variant \in ExplicitVariants
    /\ stage = "late"
    /\ UNCHANGED <<params, time_completion>>
    /\ \E lt \in [ORDERS -> Binary], ln \in [ORDERS -> 0..(n_timeslots + 1)] :
          /\ late' = lt
          /\ lateness' = ln
          /\ \A i \in ORDERS : lateness_lower_rule(i)'
          \* lateness_nonneg_rule
          /\ \A i \in ORDERS :
                (lateness[i] >= 0)'
          /\ \A i \in ORDERS : late_indicator_upper_rule(i)'
          /\ \A i \in ORDERS : late_indicator_lower_rule(i)'
    /\ IF variant = "problem_3"
       THEN stage' = "shipping" /\ UNCHANGED solve_vars
       ELSE /\ \E tc \in terminations :
                  /\ termination' = tc
                  /\ loaded' = solve_explicit(tc).loaded
                  /\ result' = solve_explicit(tc).result
            /\ stage' = IF loaded' THEN "solved" ELSE "unloaded"
    /\ UNCHANGED <<not_we, n_done, x, u, w_working, time_start, solution>>
    /\ UNCHANGED problem3_vars

\* add_shipping_constraints: the shipping slot of each order and its
\* early / late classification.
SolveShippingExplicit ==
    /\ variant = "problem_3"
    /\ stage = "shipping"
    /\ UNCHANGED <<params, time_completion>>
    /\ \E rows \in [ORDERS -> UpTo(TIME, MaxOnes)] :
          /\ ship' = {e \in ORDERS \X TIME : e[2] \in rows[e[1]]}
          \* ship_once_rule
          /\ \A i \in ORDERS :
                (Sum({<<t, ship2(i, t)>> : t \in TIME}) = 1)'
    /\ \E tsh \in [ORDERS -> TimeDomain] :
          /\ time_ship' = tsh
          \* shipping_time_rule
          /\ \A i \in ORDERS :
                (time_ship[i] = Sum({<<t, t * ship2(i, t)>> : t \in TIME}))'
          \* ship_after_completion_rule
          /\ \A i \in ORDERS :
                (time_ship[i] >= time_completion[i])'
    /\ \E se \in [ORDERS -> Binary], sl \in [ORDERS -> Binary] :
          /\ ship_early' = se
          /\ ship_late' = sl
          \* ship_early_indicator_1
          /\ \A i \in ORDERS :
                (time_ship[i] <= due[i] + BIG_M * (1 - ship_early[i]))'
          \* ship_early_indicator_2
          /\ \A i \in ORDERS :
                (time_ship[i] >= due[i] - BIG_M * ship_early[i])'
          \* ship_late_indicator_1
          /\ \A i \in ORDERS :
                (time_ship[i] >= due[i] + 1 - BIG_M * (1 - ship_late[i]))'
          \* ship_late_indicator_2
          /\ \A i \in ORDERS :
                (time_ship[i] <= due[i] + BIG_M * ship_late[i])'
          \* ship_timing_status_rule
          /\ \A i \in ORDERS :
                (ship_early[i] + ship_late[i] <= 1)'
    /\ stage' = "wip"
    /\ UNCHANGED <<n_done, x, u, w_working, time_start, late, lateness, m,
                   wip_indicator, wip, timestart, timecompletion, timeship,
                   prod, inv, hasinv, workersused, workersmax, workersmin,
                   workforcerange, event_vars, solution>>
    /\ UNCHANGED solve_vars

\* add_wip_constraints: prod and inv (NonNegativeIntegers), each fixed by an
\* equality, the WIP indicators and the WIP count.
SolveWipExplicit ==
    /\ variant = "problem_3"
    /\ stage = "wip"
    /\ UNCHANGED <<params, x, ship>>
    \* production_rule
    /\ prod' = [e \in ORDERS \X TIME |->
                  Sum({<<f, x4(e[1], f[1], e[2] - p[e[1], f[1]], f[2])>> :
                        f \in {g \in LINES \X WORKERS :
                                  /\ e[2] >= p[e[1], g[1]]
                                  /\ e[2] - p[e[1], g[1]] >= 1}})]
    \* inventory_balance_first_rule, inventory_balance_rule
    /\ inv' = [e \in ORDERS \X TIME |-> inventory(e[1], e[2])']
    /\ \A e \in ORDERS \X TIME : inv'[e] >= 0
    /\ \E dropped \in UpTo({e \in ORDERS \X TIME :
                wip_indicator_expr(e[1], e[2]) + inv'[e] >= 1}, MaxSlack) :
          /\ wip_indicator' = [e \in ORDERS \X TIME |->
                IF e \notin dropped /\ wip_indicator_expr(e[1], e[2]) + inv'[e] >= 1
                THEN 1 ELSE 0]
          \* wip_indicator_rule
          /\ \A i \in ORDERS, t \in TIME :
                (wip_indicator[i, t] <= wip_indicator_expr(i, t) + inv[i, t])'
    \* wip_count_rule
    /\ wip' = [t \in TIME |-> Sum({<<i, wip_indicator'[i, t]>> : i \in ORDERS})]
    /\ \E tc \in terminations :
          /\ termination' = tc
          /\ loaded' = solve_explicit(tc).loaded
          /\ result' = solve_explicit(tc).result
    /\ stage' = IF loaded' THEN "solved" ELSE "unloaded"
    /\ UNCHANGED <<n_done, u, we_vars, m, time_ship, ship_early, ship_late,
                   timestart, timecompletion, timeship, hasinv, workersused,
                   workersmax, workersmin, workforcerange, event_vars,
                   solution>>

\* an index tuple precedes another in the order of the nested for-loops
Precedes(e, f) ==
    \E k \in 1..Len(e) : e[k] < f[k] /\ \A n \in 1..(k - 1) : e[n] = f[n]

\* the tuples of S in the order the nested for-loops visit them
RECURSIVE InLoopOrder(_)
InLoopOrder(S) ==
    IF S = {} THEN <<>>
    ELSE LET e == CHOOSE e \in S : \A f \in S \ {e} : Precedes(e, f)
         IN  <<e>> \o InLoopOrder(S \ {e})

\* PackingScheduleModel.get_solution: an entry per x[i, j, t, w] > 0.5,
\* read back after the solve.
get_solution ==
    LET hits == InLoopOrder({e \in ORDERS \X LINES \X TIME \X WORKERS :
                                2 * x4(e[1], e[2], e[3], e[4]) > 1})
    IN  [assignments |->
            [k \in 1..Len(hits) |->
                [order |-> hits[k][1], line |-> hits[k][2],
                 time |-> hits[k][3], worker |-> hits[k][4],
                 start |-> time_start[hits[k][1]],
                 completion |-> time_completion[hits[k][1]]]],
         otif_metrics |->
            [i \in ORDERS |->
                [late |-> 2 * late[i] > 1, lateness |-> lateness[i],
                 due_date |-> due[i]]],
         line_usage |->
            [j \in LINES |-> [line |-> j, used |-> 2 * u[j] > 1]]]

\* count_worker_movements: per worker that has assignments, the number of
\* consecutive assignments (sorted by start, ties in list order) on
\* different lines
count_worker_movements(sol) ==
    LET asg == sol.assignments
        worker_ids == {asg[k].worker : k \in DOMAIN asg}
        sorted_assignments(w) ==
            InLoopOrder({<<asg[k].start, k>> : k \in {n \in DOMAIN asg : asg[n].worker = w}})
    IN  [w \in worker_ids |->
            Cardinality({n \in 1..(Len(sorted_assignments(w)) - 1) :
                asg[sorted_assignments(w)[n + 1][2]].line
                    # asg[sorted_assignments(w)[n][2]].line})]

GetSolution ==
    /\ variant \in ExplicitVariants
    /\ stage = "solved"
    /\ solution' = get_solution
    /\ stage' = "extracted"
    /\ UNCHANGED <<params, not_we, n_done, x, u, we_vars>>
    /\ UNCHANGED solve_vars
    /\ UNCHANGED problem3_vars

(***************************************************************************)
(* Problem_4 simplified model (variant "problem_4"): x[i, j, t] has no     *)
(* worker index.  timeflow is defined from timeship and timestart by one   *)
(* equality and read by no other constraint; it is not part of the state.  *)
(***************************************************************************)
\* m.x[i, j, t], a Binary variable
x3(i, j, t) == IF <<i, j, t>> \in x THEN 1 ELSE 0

JT == LINES \X TIME

\* model.M, the constant of the indicator constraints
M == 10000

\* Each order is assigned to exactly one line and one start slot.
one_assignment_simple_rule(i) ==
    Sum({<<e, x3(i, e[1], e[2])>> : e \in JT}) = 1

line_capacity_simple_rule(j, tau) ==
    LET Idx == {e \in ORDERS \X TIME : e[2] <= tau /\ tau < e[2] + p[e[1], j]}
    IN  Sum({<<e, x3(e[1], j, e[2])>> : e \in Idx}) <= u[j]

reserved_capacity_simple_rule ==
    LET Idx == ORDERS \X LINES \X TIME
        total_processing ==
            Sum({<<e, x3(e[1], e[2], e[3]) * p[e[1], e[2]]>> : e \in Idx})
    IN  100 * total_processing <= (100 - alpha) * n_lines * n_timeslots

ship_after_complete_rule(i) == timeship[i] >= timecompletion[i]

\* has_inventory_lower_rule with a threshold of 0 instead of 1
has_inventory_lower_from_zero(i, t) == inv[i, t] >= 0 - M * (1 - hasinv[i, t])

has_inventory_lower_rule(i, t) == inv[i, t] >= 1 - M * (1 - hasinv[i, t])

\* the right-hand side of production_rule, at the start slot instead of the
\* completion slot
production_at_start(i, t) == Sum({<<j, x3(i, j, t)>> : j \in LINES})

\* the right-hand side of production_rule
production(i, t) ==
    Sum({<<j, x3(i, j, t - p[i, j])>> : j \in {k \in LINES : t - p[i, k] >= 1}})

initial_inventory_rule(i) == inv[i, 0] = inv0[i]

\* workers_used_rule counting every order started by tau, also the orders
\* already complete
workers_used_started(tau) ==
    LET Idx == {e \in ORDERS \X LINES \X TIME : e[3] <= tau}
    IN  Sum({<<e, x3(e[1], e[2], e[3])>> : e \in Idx})

\* the right-hand side of workers_used_rule
workers_used(tau) ==
    LET Idx == {e \in ORDERS \X LINES \X TIME :
                    e[3] <= tau /\ tau < e[3] + p[e[1], e[2]]}
    IN  Sum({<<e, x3(e[1], e[2], e[3])>> : e \in Idx})

workers_used_rule(tau) == workersused[tau] = Real(workers_used(tau))

min_workforce_rule(t) == workersused[t] >= workersmin

\* the summand of ObjectiveManager._otif_term for an order of priority 1
otif_term(i) == 7 * late[i] + 3 * lateness[i]

(***************************************************************************)
(* Input data of the simplified model.                                     *)
(***************************************************************************)
SomeInitialInventory == [i \in ORDERS |-> 1]

InitialInventories ==
    {[i \in ORDERS |-> v] : v \in 0..MaxInv0} \cup
    {[i \in ORDERS |-> IF i = k THEN v ELSE 1] : k \in ORDERS, v \in 0..MaxInv0}

\* the same time for every order on every line, or a longer time for the
\* first order on the first line
SimpleProcessingTimes ==
    UniformP \cup
    {[e \in ORDERS \X LINES |-> IF e = <<1, 1>> THEN MaxP ELSE 1]}

\* every order is due in slot 2: an order of one slot started in slot 1
\* completes on time, every other order completes late
DueSecondSlot == [i \in ORDERS |-> 2]

InitSimple ==
    /\ variant = "problem_4"
    /\ \/ p \in SimpleProcessingTimes /\ inv0 = SomeInitialInventory
       \/ p = [e \in ORDERS \X LINES |-> 1] /\ inv0 \in InitialInventories
    /\ a = AlwaysAvailable
    /\ due = DueSecondSlot
    /\ alpha = 0
    /\ order_type = OneType
    /\ setup_time \in IF p = LongestP THEN SetupTensors ELSE {NoSetupTensor}
    /\ NoDemands
    /\ NothingSolved

(***************************************************************************)
(* The solver, simplified model: one step per group of constraints.        *)
(***************************************************************************)
\* define_assignment_constraints: the row x[i, ., .] of the next order.
SolveAssignmentSimple ==
    /\ variant = "problem_4"
    /\ stage = "assign"
    /\ n_done < n_orders
    /\ \E i \in {n_done + 1}, row \in UpTo(JT, MaxOnes) :
          /\ x' = x \cup {<<i, e[1], e[2]>> : e \in row}
          /\ one_assignment_simple_rule(i)'
    /\ n_done' = n_done + 1
    /\ stage' = IF n_done + 1 = n_orders THEN "capacity" ELSE "assign"
    /\ UNCHANGED <<params, not_simple, u, simple_vars, solution>>
    /\ UNCHANGED solve_vars
    /\ UNCHANGED problem3_vars

\* define_capacity_constraints: the line-in-use indicators u[j].
SolveCapacitySimple ==
    /\ variant = "problem_4"
    /\ stage = "capacity"
    /\ UNCHANGED <<params, x>>
    /\ \E uu \in [LINES -> Binary] :
          /\ u' = uu
          /\ \A j \in LINES, tau \in TIME : line_capacity_simple_rule(j, tau)'
          /\ reserved_capacity_simple_rule'
          \* line_in_use_simple_rule
          /\ \A j \in LINES, tau \in TIME :
                (LET Idx == {e \in ORDERS \X TIME : e[2] <= tau /\ tau < e[2] + p[e[1], j]}
                 IN  Sum({<<e, x3(e[1], j, e[2])>> : e \in Idx}) <= u[j])'
    /\ stage' = "otif"
    /\ UNCHANGED <<not_simple, n_done, simple_vars, solution>>
    /\ UNCHANGED solve_vars
    /\ UNCHANGED problem3_vars

\* define_otif_constraints: timestart and timecompletion, bounds
\* (1, n_timeslots).
SolveTimesSimple ==
    /\ variant = "problem_4"
    /\ stage = "otif"
    /\ UNCHANGED <<params, x>>
    /\ \E ts \in [ORDERS -> TimeDomain] :
          /\ timestart' = ts
          \* start_time_simple_rule
          /\ \A i \in ORDERS :
                (timestart[i] = Sum({<<e, e[2] * x3(i, e[1], e[2])>> : e \in JT}))'
    /\ \E tc \in [ORDERS -> TimeDomain] :
          /\ timecompletion' = tc
          \* completion_time_simple_rule
          /\ \A i \in ORDERS :
                (timecompletion[i] =
                    Sum({<<e, (e[2] + p[i, e[1]]) * x3(i, e[1], e[2])>> : e \in JT}))'
    /\ stage' = "shipping"
    /\ UNCHANGED <<not_simple, n_done, u, ship, timeship, prod, inv, hasinv,
                   workersused, workersmax, workersmin, workforcerange,
                   solution>>
    /\ UNCHANGED solve_vars
    /\ UNCHANGED problem3_vars

\* define_shipping_constraints: ship (Binary) and timeship, bounds
\* (1, n_timeslots), by ship_once and shipping_time.
SolveShippingSimple ==
    /\ variant = "problem_4"
    /\ stage = "shipping"
    /\ UNCHANGED <<params>>
    /\ \E rows \in [ORDERS -> UpTo(TIME, MaxOnes)] :
          /\ ship' = {e \in ORDERS \X TIME : e[2] \in rows[e[1]]}
          \* ship_once_rule
          /\ \A i \in ORDERS :
                (Sum({<<t, ship2(i, t)>> : t \in TIME}) = 1)'
    /\ \E tsh \in [ORDERS -> TimeDomain] :
          /\ timeship' = tsh
          \* shipping_time_rule
          /\ \A i \in ORDERS :
                (timeship[i] = Sum({<<t, t * ship2(i, t)>> : t \in TIME}))'
    /\ stage' = "wip"
    /\ UNCHANGED <<not_simple, n_done, x, u, timestart, timecompletion, prod,
                   inv, hasinv, workersused, workersmax, workersmin,
                   workforcerange, solution>>
    /\ UNCHANGED solve_vars
    /\ UNCHANGED problem3_vars

\* define_wip_constraints: prod and inv (NonNegativeIntegers), each fixed by
\* an equality.
SolveWipSimple ==
    /\ variant = "problem_4"
    /\ stage = "wip"
    /\ UNCHANGED <<params, x, ship>>
    /\ prod' = [e \in ORDERS \X TIME |-> production(e[1], e[2])]
    /\ prod' \in [ORDERS \X TIME -> Nat]
    \* production_rule
    /\ \A i \in ORDERS, t \in TIME :
          (prod[i, t] = production(i, t))'
    /\ inv' = [e \in ORDERS \X TIME_WITH_ZERO |-> inventory(e[1], e[2])']
    /\ inv' \in [ORDERS \X TIME_WITH_ZERO -> Nat]
    /\ \A i \in ORDERS : initial_inventory_rule(i)'
    \* inventory_balance_rule
    /\ \A i \in ORDERS, t \in TIME :
          (inv[i, t] = inv[i, t - 1] + prod[i, t] - ship2(i, t))'
    /\ n_done' = 0
    /\ stage' = "inventory"
    /\ UNCHANGED <<not_simple, u, timestart, timecompletion, timeship, hasinv,
                   workersused, workersmax, workersmin, workforcerange,
                   solution>>
    /\ UNCHANGED solve_vars
    /\ UNCHANGED problem3_vars

\* define_shipping_constraints: ship_after_complete and the row
\* hasinv[i, .] of the next order.
SolveHasInventorySimple ==
    /\ variant = "problem_4"
    /\ stage = "inventory"
    /\ n_done < n_orders
    /\ UNCHANGED <<params, inv, ship, timeship, timecompletion>>
    /\ \E i \in {n_done + 1}, row \in [TIME -> Binary] :
          /\ ship_after_complete_rule(i)'
          /\ hasinv' = [e \in ORDERS \X TIME |->
                            IF e[1] = i THEN row[e[2]] ELSE hasinv[e]]
          /\ \A t \in TIME : has_inventory_lower_rule(i, t)'
          \* has_inventory_upper_rule
          /\ \A t \in TIME :
                (inv[i, t] <= M * hasinv[i, t])'
          \* ship_requires_inventory_rule
          /\ \A t \in TIME :
                (ship2(i, t) <= hasinv[i, t])'
    /\ n_done' = n_done + 1
    /\ stage' = IF n_done + 1 = n_orders THEN "workforce" ELSE "inventory"
    /\ UNCHANGED <<not_simple, x, u, timestart, prod, workersused, workersmax,
                   workersmin, workforcerange, solution>>
    /\ UNCHANGED solve_vars
    /\ UNCHANGED problem3_vars

\* workersused, workersmax, workersmin, workforcerange: NonNegativeIntegers,
\* bounds (0, n_workers)
WorkforceDomain == {Real(n) : n \in 0..n_workers_simple}

\* define_workforce_constraints.
SolveWorkforceSimple ==
    /\ variant = "problem_4"
    /\ stage = "workforce"
    /\ UNCHANGED <<params, x>>
    /\ workersused' = [tau \in TIME |-> Real(workers_used(tau))]
    /\ workersused' \in [TIME -> WorkforceDomain]
    /\ \A tau \in TIME : workers_used_rule(tau)'
    /\ \E wmax \in WorkforceDomain, wmin \in WorkforceDomain,
          wrange \in WorkforceDomain :
          /\ workersmax' = wmax
          /\ workersmin' = wmin
          /\ workforcerange' = wrange
          \* max_workforce_rule
          /\ \A t \in TIME :
                (workersmax >= workersused[t])'
          /\ \A t \in TIME : min_workforce_rule(t)'
          \* workforce_range_rule
          /\ (workforcerange = workersmax - workersmin)'
    /\ stage' = "late"
    /\ UNCHANGED <<not_simple, n_done, u, timestart, timecompletion, ship,
                   timeship, prod, inv, hasinv, solution>>
    /\ UNCHANGED solve_vars
    /\ UNCHANGED problem3_vars

\* late (Binary) and lateness (NonNegativeIntegers) are declared by
\* define_variables and occur in no constraint: the rules of
\* define_otif_constraints that mention them are commented out.  Any value
\* of their domains belongs to a solution.
SolveLateSimple ==
    /\ variant = "problem_4"
    /\ stage = "late"
    /\ \E lt \in [ORDERS -> Binary], ln \in [ORDERS -> 0..MaxLatenessSimple] :
          /\ late' = lt
          /\ lateness' = ln
    /\ \E tc \in terminations :
          /\ termination' = tc
          /\ loaded' = solve_simple(tc).loaded
          /\ result' = solve_simple(tc).result
    /\ stage' = IF loaded' THEN "solved" ELSE "unloaded"
    /\ UNCHANGED <<params, w_working, time_start, time_completion, event_vars,
                   n_done, x, u, simple_vars, solution>>
    /\ UNCHANGED problem3_vars

\* PackingScheduleModelSimple.get_solution; int() of a whole number is the
\* number.
get_solution_simple ==
    LET hits == InLoopOrder({e \in ORDERS \X LINES \X TIME :
                                2 * x3(e[1], e[2], e[3]) > 1})
    IN  [assignments |->
            [k \in 1..Len(hits) |->
                [order |-> hits[k][1], line |-> hits[k][2],
                 start |-> hits[k][3],
                 completion |-> timecompletion[hits[k][1]],
                 ship |-> timeship[hits[k][1]],
                 processing_time |-> p[hits[k][1], hits[k][2]]]],
         otif_metrics |->
            [i \in ORDERS |->
                [due_date |-> due[i], completion_time |-> timecompletion[i],
                 ship_time |-> timeship[i], late |-> 2 * late[i] > 1,
                 lateness |-> lateness[i]]],
         inventory |-> [i \in ORDERS |-> [t \in TIME_WITH_ZERO |-> inv[i, t]]],
         workforce |-> [t \in TIME |-> int(workersused[t])],
         workforce_summary |->
            [max |-> int(workersmax), min |-> int(workersmin),
             range |-> int(workforcerange)],
         line_usage |-> [j \in LINES |-> 2 * u[j] > 1]]

GetSolutionSimple ==
    /\ variant = "problem_4"
    /\ stage = "solved"
    /\ solution' = get_solution_simple
    /\ stage' = "extracted"
    /\ UNCHANGED <<params, not_simple, n_done, x, u, simple_vars>>
    /\ UNCHANGED solve_vars
    /\ UNCHANGED problem3_vars

(***************************************************************************)
(* Problem_4_1 model (variant "problem_4_1"): x[i, j, t] with no line      *)
(* indicator and no start or completion variables; an order counts towards *)
(* capacity and workforce only when it completes within the horizon.       *)
(***************************************************************************)
\* the filter of the Problem_4_1 sums: the order started at t on line j is
\* processing at tau and completes within the horizon
active_4_1(i, j, t, tau) ==
    t <= tau /\ tau < t + p[i, j] /\ t + p[i, j] <= n_timeslots + 1

reserved_capacity_4_1_rule ==
    LET Idx == {e \in ORDERS \X LINES \X TIME \X TIME :
                    active_4_1(e[1], e[2], e[4], e[3])}
    IN  100 * Sum({<<e, x3(e[1], e[2], e[4])>> : e \in Idx})
            <= (100 - alpha) * n_lines * n_timeslots

\* the right-hand side of production_rule
production_4_1(i, t) ==
    LET Idx == {e \in LINES \X TIME :
                    e[2] + p[i, e[1]] = t /\ e[2] + p[i, e[1]] <= n_timeslots}
    IN  Sum({<<e, x3(i, e[1], e[2])>> : e \in Idx})

\* the right-hand side of workers_used_rule
workers_used_4_1(tau) ==
    LET Idx == {e \in ORDERS \X LINES \X TIME :
                    active_4_1(e[1], e[2], e[3], tau)}
    IN  Sum({<<e, x3(e[1], e[2], e[3])>> : e \in Idx})

workforce_range_4_1_is_max == workforcerange = workersmax

workforce_range_4_1_rule == workforcerange = workersmax - workersmin

\* processing times that let two orders keep a worker busy in every slot
LongProcessing == [e \in ORDERS \X LINES |-> MaxP + 1]

\* every order is due in the last slot
DueAtHorizon == [i \in ORDERS |-> n_timeslots]

\* every order is due one slot before the last
DueBeforeHorizon == [i \in ORDERS |-> n_timeslots - 1]

InitProblem41 ==
    /\ variant = "problem_4_1"
    /\ \/ /\ p \in ProcessingTimes \cup {LongProcessing}
          /\ inv0 = SomeInitialInventory
          /\ due = DueAtHorizon
       \/ /\ p = LongestP
          /\ inv0 \in {NoInitialInventory, SomeInitialInventory}
          /\ due = DueBeforeHorizon
    /\ a = AlwaysAvailable
    /\ alpha = 0
    /\ order_type = OneType
    /\ setup_time = NoSetup
    /\ NoDemands
    /\ NothingSolved

\* define_assignment_constraints: the row x[i, ., .] of the next order.
SolveAssignment41 ==
    /\ variant = "problem_4_1"
    /\ stage = "assign"
    /\ n_done < n_orders
    /\ \E i \in {n_done + 1}, row \in UpTo(JT, MaxOnes) :
          /\ x' = x \cup {<<i, e[1], e[2]>> : e \in row}
          \* one_assignment_4_1_rule
          /\ (Sum({<<e, x3(i, e[1], e[2])>> : e \in JT}) = 1)'
    /\ n_done' = n_done + 1
    /\ stage' = IF n_done + 1 = n_orders THEN "capacity" ELSE "assign"
    /\ UNCHANGED <<params, not_simple, u, simple_vars, solution>>
    /\ UNCHANGED solve_vars
    /\ UNCHANGED problem3_vars

\* define_capacity_constraints: constraints on x alone.
SolveCapacity41 ==
    /\ variant = "problem_4_1"
    /\ stage = "capacity"
    \* line_capacity_4_1_rule
    /\ \A j \in LINES, tau \in TIME :
          (LET Idx == {e \in ORDERS \X TIME : active_4_1(e[1], j, e[2], tau)}
           IN  Sum({<<e, x3(e[1], j, e[2])>> : e \in Idx}) <= 1)
    /\ reserved_capacity_4_1_rule
    /\ stage' = "shipping"
    /\ UNCHANGED <<params, not_simple, n_done, x, u, simple_vars, solution>>
    /\ UNCHANGED solve_vars
    /\ UNCHANGED problem3_vars

\* define_shipping_constraints: the ship slot of each order.
SolveShipping41 ==
    /\ variant = "problem_4_1"
    /\ stage = "shipping"
    /\ UNCHANGED <<params>>
    /\ \E rows \in [ORDERS -> UpTo(TIME, MaxOnes)] :
          /\ ship' = {e \in ORDERS \X TIME : e[2] \in rows[e[1]]}
          \* ship_once_4_1_rule
          /\ \A i \in ORDERS :
                (Sum({<<t, ship2(i, t)>> : t \in TIME}) = 1)'
          \* ship_after_due_rule
          /\ \A i \in ORDERS, t \in TIME :
                (IF t < due[i] THEN ship2(i, t) = 0 ELSE TRUE)'
    /\ stage' = "wip"
    /\ UNCHANGED <<not_simple, n_done, x, u, timestart, timecompletion,
                   timeship, prod, inv, hasinv, workersused, workersmax,
                   workersmin, workforcerange, solution>>
    /\ UNCHANGED solve_vars
    /\ UNCHANGED problem3_vars

\* define_wip_constraints: prod and inv, NonNegativeIntegers, are fixed by
\* x and ship.
SolveWip41 ==
    /\ variant = "problem_4_1"
    /\ stage = "wip"
    /\ UNCHANGED <<params, x, ship>>
    /\ prod' = [e \in ORDERS \X TIME |-> production_4_1(e[1], e[2])]
    /\ prod' \in [ORDERS \X TIME -> Nat]
    \* production_4_1_rule
    /\ \A i \in ORDERS, t \in TIME :
          (prod[i, t] = production_4_1(i, t))'
    /\ inv' = [e \in ORDERS \X TIME_WITH_ZERO |-> inventory(e[1], e[2])']
    /\ inv' \in [ORDERS \X TIME_WITH_ZERO -> Nat]
    \* initial_inventory_4_1_rule
    /\ \A i \in ORDERS :
          (inv[i, 0] = inv0[i])'
    \* inventory_balance_4_1_rule
    /\ \A i \in ORDERS, t \in TIME_WITH_ZERO :
          (IF t = 0 THEN TRUE ELSE inv[i, t] = inv[i, t - 1] + prod[i, t] - ship2(i, t))'
    /\ stage' = "workforce"
    /\ UNCHANGED <<not_simple, n_done, u, timestart, timecompletion, timeship,
                   hasinv, workersused, workersmax, workersmin,
                   workforcerange, solution>>
    /\ UNCHANGED solve_vars
    /\ UNCHANGED problem3_vars

\* define_workforce_constraints: workersused, workersmax, workersmin and
\* workforcerange, NonNegativeIntegers with bounds (0, n_workers).
SolveWorkforce41 ==
    /\ variant = "problem_4_1"
    /\ stage = "workforce"
    /\ UNCHANGED <<params, x>>
    /\ workersused' = [tau \in TIME |-> Real(workers_used_4_1(tau))]
    /\ workersused' \in [TIME -> WorkforceDomain]
    \* workers_used_4_1_rule
    /\ \A tau \in TIME :
          (workersused[tau] = Real(workers_used_4_1(tau)))'
    /\ \E wmax \in WorkforceDomain, wmin \in WorkforceDomain,
          wrange \in WorkforceDomain :
          /\ workersmax' = wmax
          /\ workersmin' = wmin
          /\ workforcerange' = wrange
          \* max_workers_rule
          /\ \A t \in TIME :
                (workersmax >= workersused[t])'
          \* min_workers_rule
          /\ \A t \in TIME :
                (workersused[t] >= workersmin)'
          /\ workforce_range_4_1_rule'
    /\ \E tc \in terminations :
          /\ termination' = tc
          /\ loaded' = solve_simple(tc).loaded
          /\ result' = solve_simple(tc).result
    /\ stage' = IF loaded' THEN "solved" ELSE "unloaded"
    /\ UNCHANGED <<not_simple, n_done, u, timestart, timecompletion, ship,
                   timeship, prod, inv, hasinv, solution>>
    /\ UNCHANGED problem3_vars

\* get_solution of the Problem_4_1 family: an entry per x[i, j, t] > 0.5 and
\* the workforce values.  int(t + m.p[i, j]) is a sum of whole numbers.
get_solution_4_1 ==
    LET hits == InLoopOrder({e \in ORDERS \X LINES \X TIME :
                                2 * x3(e[1], e[2], e[3]) > 1})
    IN  [assignments |->
            [k \in 1..Len(hits) |->
                [order |-> hits[k][1], line |-> hits[k][2],
                 start |-> hits[k][3],
                 processing_time |-> p[hits[k][1], hits[k][2]],
                 completion |-> hits[k][3] + p[hits[k][1], hits[k][2]]]],
         inventory |-> [i \in ORDERS |-> [t \in TIME_WITH_ZERO |-> inv[i, t]]],
         workforce |-> [t \in TIME |-> int(workersused[t])],
         workforce_summary |->
            [max |-> int(workersmax), min |-> int(workersmin),
             range |-> int(workforcerange)],
         shipping |->
            [i \in ORDERS |->
                LET t == CHOOSE n \in TIME :
                            /\ 2 * ship2(i, n) > 1
                            /\ \A k \in TIME : 2 * ship2(i, k) > 1 => k <= n
                IN  [ship_time |-> t, due_date |-> due[i],
                     on_time |-> t <= due[i]]]]

GetSolution41 ==
    /\ variant = "problem_4_1"
    /\ stage = "solved"
    /\ solution' = get_solution_4_1
    /\ stage' = "extracted"
    /\ UNCHANGED <<params, not_simple, n_done, x, u, simple_vars>>
    /\ UNCHANGED solve_vars
    /\ UNCHANGED problem3_vars

(***************************************************************************)
(* Event-based continuous-time model (variant "event_based"): x[i, j] has  *)
(* no time index; start, complete and the event times are reals in         *)
(* [0, T_max], the workforce variables reals in [0, n_orders].  Processing *)
(* and setup times are given per product type, in grid steps.              *)
(***************************************************************************)
\* m.x[i, j], a Binary variable
x2(i, j) == IF <<i, j>> \in x THEN 1 ELSE 0

\* 1 / model.epsilon; a rule that mentions epsilon is multiplied through by it
PerEpsilon == 100

\* model.M of the event-based model
M_event == Real(10 * T_max)

\* model.T_max_param
T_max_param == Real(T_max)

one_assignment_event_rule(i) ==
    Sum({<<j, x2(i, j)>> : j \in LINES}) <= 1

no_overlap_forward_rule(i, k, j) ==
    IF i >= k THEN TRUE
    ELSE LET type_i == order_type[i]
             type_k == order_type[k]
         IN  start[k] >= complete[i] + setup_time[type_i, type_k]
                 - T_max_param * (3 - x2(i, j) - x2(k, j) - y[i, k])

\* no_overlap_backward_rule with the setup time looked up from i to k
no_overlap_backward_forward_setup(i, k, j) ==
    IF i >= k THEN TRUE
    ELSE LET type_i == order_type[i]
             type_k == order_type[k]
         IN  start[i] >= complete[k] + setup_time[type_i, type_k]
                 - T_max_param * (2 - x2(i, j) - x2(k, j) + y[i, k])

no_overlap_backward_rule(i, k, j) ==
    IF i >= k THEN TRUE
    ELSE LET type_i == order_type[i]
             type_k == order_type[k]
         IN  start[i] >= complete[k] + setup_time[type_k, type_i]
                 - T_max_param * (2 - x2(i, j) - x2(k, j) + y[i, k])

event_time_start_rule(i) == t_event[i] = start[i]

event_time_completion_rule(i) ==
    LET event_idx == n_orders + i
    IN  t_event[event_idx] = complete[i]

\* the value the two event-time rules give t_event[e]
event_time(e) == IF e <= n_orders THEN start[e] ELSE complete[e - n_orders]

active_constraint_1_rule(i, e) == is_active[i, e] <= started[i, e]

active_constraint_2_rule(i, e) == is_active[i, e] <= notcomplete[i, e]

active_constraint_3_rule(i, e) ==
    is_active[i, e] >= started[i, e] + notcomplete[i, e] - 1

started_true_rule(i, e) ==
    start[i] <= t_event[e] + M_event * (1 - started[i, e])

\* started_false_rule without its epsilon: start[i] >= t_event[e] lets
\* started[i, e] be 0 for an order that starts exactly at the event
started_false_without_epsilon(i, e) ==
    start[i] >= t_event[e] - M_event * started[i, e]

started_false_rule(i, e) ==
    PerEpsilon * start[i] >=
        PerEpsilon * t_event[e] + Real(1) - PerEpsilon * M_event * started[i, e]

notcomplete_true_rule(i, e) ==
    PerEpsilon * complete[i] >=
        PerEpsilon * t_event[e] + Real(1)
            - PerEpsilon * M_event * (1 - notcomplete[i, e])

notcomplete_false_rule(i, e) ==
    complete[i] <= t_event[e] + M_event * notcomplete[i, e]

\* the right-hand side of workers_used_rule
workers_used_event(e) == Sum({<<i, is_active[i, e]>> : i \in ORDERS})

workers_used_event_rule(e) == workersused[e] = Real(workers_used_event(e))

(***************************************************************************)
(* Event-based model, shipping.py, wip.py and otif.py: demands are served  *)
(* from the initial inventory and from the orders completed before the     *)
(* demand ships.  due[d] and ship[d] are times; inv0, qty, prodbefore and  *)
(* inv count units.                                                        *)
(***************************************************************************)
DEMANDS == 1..n_demands

\* the right-hand side of track_produced_items_rule
produced_before(v, d) ==
    Sum({<<i, prodorder[i, d]>> : i \in {k \in ORDERS : order_type[k] = v}})

\* order_before_shipping_rule relaxed for every value of prodorder
order_before_shipping_always_relaxed(i, d) == complete[i] <= ship[d] + M_event

order_before_shipping_rule(i, d) ==
    complete[i] <= ship[d] + M_event * (1 - prodorder[i, d])

order_assignment_required_rule(i, d) ==
    Sum({<<j, x2(i, j)>> : j \in LINES}) >= prodorder[i, d]

order_after_shipping_rule(i, d) ==
    PerEpsilon * complete[i] >=
        PerEpsilon * ship[d] + Real(1) - PerEpsilon * M_event * prodorder[i, d]

ship_within_horizon_rule(d) == ship[d] <= T_max_param

ship_no_earlier_than_due_rule(d) == ship[d] >= due[d]

\* shipped_demand of inventory_balance_rule
shipped_demand(v, d) ==
    Sum({<<d1, shipped[d1, d] * qty[d1]>> :
            d1 \in {k \in DEMANDS : prodtype[k] = v}})

\* the right-hand side of inventory_balance_rule
inventory_event(v, d) == inv0[v] + prodbefore[v, d] - shipped_demand(v, d)

(***************************************************************************)
(* Input data of the event-based model.                                    *)
(***************************************************************************)
EventProcessingTimes ==
    {[e \in TYPES \X LINES |-> 1]} \cup
    {[e \in TYPES \X LINES |-> IF e = f THEN Real(1) ELSE 1] : f \in TYPES \X LINES}

SetupTimes ==
    {[e \in TYPES \X TYPES |-> IF e = f THEN c ELSE 0] :
        f \in TYPES \X TYPES, c \in 1..MaxSetup}

\* order i is of type i, as far as there are types
DistinctTypes == [i \in ORDERS |-> IF i <= n_unique_types THEN i ELSE 1]

\* the orders take the whole horizon on every line
WholeHorizon == [e \in TYPES \X LINES |-> T_max_param]

\* one unit of type 1 per demand, due at the start of the horizon or shortly
\* after it, or every demand due at the end of the horizon
Demands ==
    /\ n_demands = MaxDemands
    /\ prodtype = [d \in 1..MaxDemands |-> 1]
    /\ qty = [d \in 1..MaxDemands |-> 1]
    /\ due \in [1..MaxDemands -> 0..MaxDueEvent]
                \cup {[d \in 1..MaxDemands |-> T_max_param]}
    /\ inv0 \in {[v \in TYPES |-> n] : n \in 0..MaxInv0}

\* more demands than orders: one unit of type 1 per demand, due at the
\* start of the horizon, covered by the initial inventory
MoreDemandsThanOrders ==
    /\ n_demands = n_orders + 1
    /\ prodtype = [d \in 1..(n_orders + 1) |-> 1]
    /\ qty = [d \in 1..(n_orders + 1) |-> 1]
    /\ due = [d \in 1..(n_orders + 1) |-> 0]
    /\ inv0 = [v \in TYPES |-> n_orders + 1]

\* model.priority: a Param over ORDERS; every order has priority 1
priority == [i \in ORDERS |-> 1]

\* ObjectiveManager._otif_term reads priority[d] for every demand d; a Param
\* read at an index outside its index set raises KeyError
otif_term_key_error == \E d \in DEMANDS : d \notin DOMAIN priority

InitEvent ==
    /\ variant = "event_based"
    /\ \/ /\ p \in EventProcessingTimes
          /\ setup_time = NoSetup
          /\ order_type = DistinctTypes
          /\ NoDemands /\ due = <<>> /\ inv0 = [v \in TYPES |-> 0]
       \/ /\ p = [e \in TYPES \X LINES |-> 1]
          /\ setup_time \in SetupTimes
          /\ order_type = DistinctTypes
          /\ NoDemands /\ due = <<>> /\ inv0 = [v \in TYPES |-> 0]
       \/ /\ p = [e \in TYPES \X LINES |-> 1]
          /\ setup_time = [e \in TYPES \X TYPES |-> MaxSetup]
          /\ order_type = OneType
          /\ NoDemands /\ due = <<>> /\ inv0 = [v \in TYPES |-> 0]
       \/ /\ p = WholeHorizon
          /\ setup_time = NoSetup
          /\ order_type = OneType
          /\ Demands
       \/ /\ p = WholeHorizon
          /\ setup_time = [e \in TYPES \X TYPES |-> MaxSetup]
          /\ order_type = OneType
          /\ NoDemands /\ due = <<>> /\ inv0 = [v \in TYPES |-> 0]
       \/ /\ p = [e \in TYPES \X LINES |-> 1]
          /\ setup_time = NoSetup
          /\ order_type = OneType
          /\ MoreDemandsThanOrders
    /\ a = AlwaysAvailable
    /\ alpha = 0
    /\ stage = IF otif_term_key_error THEN "failed" ELSE "assign"
    /\ NoValues

(***************************************************************************)
(* The solver, event-based model: one step per constraint module.          *)
(***************************************************************************)
\* start, complete and t_event: NonNegativeReals, bounds (0, T_max)
TimeGrid == 0..Real(T_max)

\* the workforce variables: NonNegativeReals, bounds (0, n_orders)
WorkforceGrid == 0..Real(n_orders)

\* define_assignment_constraints: x, u, start and complete.
SolveAssignmentEvent ==
    /\ variant = "event_based"
    /\ stage = "assign"
    /\ UNCHANGED <<params>>
    /\ \E rows \in [ORDERS -> UpTo(LINES, MaxOnes)] :
          /\ x' = {e \in ORDERS \X LINES : e[2] \in rows[e[1]]}
          /\ \A i \in ORDERS : one_assignment_event_rule(i)'
    /\ \E uu \in [LINES -> Binary] :
          /\ u' = uu
          \* line_used_if_assigned_rule
          /\ \A j \in LINES :
                (PerEpsilon * Sum({<<i, x2(i, j)>> : i \in ORDERS}) >= u[j])'
          \* line_not_used_if_empty_rule
          /\ \A j \in LINES :
                (Sum({<<i, x2(i, j)>> : i \in ORDERS}) <= n_orders * u[j])'
    /\ \E st \in [ORDERS -> TimeGrid] :
          /\ start' = st
          \* start_time_nonneg_rule
          /\ \A i \in ORDERS :
                (start[i] >= 0)'
    /\ \E co \in [ORDERS -> TimeGrid] :
          /\ complete' = co
          \* processing_time_rule
          /\ \A i \in ORDERS :
                (LET type == order_type[i]
                 IN  complete[i] = start[i] + Sum({<<j, p[type, j] * x2(i, j)>> : j \in LINES}))'
          \* completion_within_horizon_rule
          /\ \A i \in ORDERS :
                (complete[i] <= T_max_param)'
    /\ n_done' = n_orders
    /\ stage' = "capacity"
    /\ UNCHANGED <<not_event, demand_vars, late, lateness, y, t_event,
                   started, notcomplete, is_active, workersused, workersmax,
                   workersmin, workforcerange, solution>>
    /\ UNCHANGED solve_vars
    /\ UNCHANGED problem3_vars

\* define_capacity_constraints: the sequencing indicators y[i, k].
SolveCapacityEvent ==
    /\ variant = "event_based"
    /\ stage = "capacity"
    /\ UNCHANGED <<params, x, start, complete>>
    /\ \E yy \in [OrderPairs -> Binary] :
          /\ y' = yy
          /\ \A i \in ORDERS, k \in ORDERS, j \in LINES :
                no_overlap_forward_rule(i, k, j)'
          /\ \A i \in ORDERS, k \in ORDERS, j \in LINES :
                no_overlap_backward_rule(i, k, j)'
    /\ stage' = "shipping"
    /\ UNCHANGED <<not_event, demand_vars, late, lateness, n_done, u, t_event,
                   started, notcomplete, is_active, workersused, workersmax,
                   workersmin, workforcerange, solution>>
    /\ UNCHANGED solve_vars
    /\ UNCHANGED problem3_vars

\* define_shipping_constraints and define_wip_constraints: the shipping time
\* of each demand, what is produced before it and what is left after it.
SolveShippingEvent ==
    /\ variant = "event_based"
    /\ stage = "shipping"
    /\ UNCHANGED <<params, x, start, complete>>
    /\ \E sh \in [DEMANDS -> TimeGrid] :
          /\ ship' = sh
          /\ \A d \in DEMANDS : ship_within_horizon_rule(d)'
          /\ \A d \in DEMANDS : ship_no_earlier_than_due_rule(d)'
    /\ \E po \in [ORDERS \X DEMANDS -> Binary] :
          /\ prodorder' = po
          /\ \A i \in ORDERS, d \in DEMANDS : order_before_shipping_rule(i, d)'
          /\ \A i \in ORDERS, d \in DEMANDS :
                order_assignment_required_rule(i, d)'
          /\ \A i \in ORDERS, d \in DEMANDS : order_after_shipping_rule(i, d)'
    /\ prodbefore' = [e \in TYPES \X DEMANDS |-> produced_before(e[1], e[2])']
    \* track_produced_items_rule
    /\ \A v \in TYPES, d \in DEMANDS :
          (prodbefore[v, d] = produced_before(v, d))'
    /\ \E sd \in [DEMANDS \X DEMANDS -> Binary] :
          /\ shipped' = sd
          \* shipped_before_rule
          /\ \A d1 \in DEMANDS, d \in DEMANDS :
                (ship[d1] <= ship[d] + M_event * (1 - shipped[d1, d]))'
          \* shipped_after_rule
          /\ \A d1 \in DEMANDS, d \in DEMANDS :
                (PerEpsilon * ship[d1] >=
                    PerEpsilon * ship[d] + Real(1) - PerEpsilon * M_event * shipped[d1, d])'
    /\ inv' = [e \in TYPES \X DEMANDS |-> inventory_event(e[1], e[2])']
    \* inventory_balance_event_rule
    /\ \A v \in TYPES, d \in DEMANDS :
          (inv[v, d] = inventory_event(v, d))'
    \* inventory_nonnegative_rule
    /\ \A v \in TYPES, d \in DEMANDS :
          (inv[v, d] >= 0)'
    /\ stage' = "workforce"
    /\ UNCHANGED <<not_event, late, lateness, n_done, u, y, t_event, started,
                   notcomplete, is_active, workersused, workersmax,
                   workersmin, workforcerange, solution>>
    /\ UNCHANGED solve_vars
    /\ UNCHANGED problem3_vars

\* define_workforce_constraints: event times, the indicators of each order
\* at each event, and the workforce levels.
SolveWorkforceEvent ==
    /\ variant = "event_based"
    /\ stage = "workforce"
    /\ UNCHANGED <<params, start, complete>>
    /\ t_event' = [e \in EVENTS |-> event_time(e)]
    /\ t_event' \in [EVENTS -> TimeGrid]
    /\ \A i \in ORDERS : event_time_start_rule(i)'
    /\ \A i \in ORDERS : event_time_completion_rule(i)'
    /\ \E sd \in [ORDERS \X EVENTS -> Binary] :
          /\ started' = sd
          /\ \A i \in ORDERS, e \in EVENTS : started_true_rule(i, e)'
          /\ \A i \in ORDERS, e \in EVENTS : started_false_rule(i, e)'
    /\ \E nc \in [ORDERS \X EVENTS -> Binary] :
          /\ notcomplete' = nc
          /\ \A i \in ORDERS, e \in EVENTS : notcomplete_true_rule(i, e)'
          /\ \A i \in ORDERS, e \in EVENTS : notcomplete_false_rule(i, e)'
    /\ \E ac \in [ORDERS \X EVENTS -> Binary] :
          /\ is_active' = ac
          /\ \A i \in ORDERS, e \in EVENTS : active_constraint_1_rule(i, e)'
          /\ \A i \in ORDERS, e \in EVENTS : active_constraint_2_rule(i, e)'
          /\ \A i \in ORDERS, e \in EVENTS : active_constraint_3_rule(i, e)'
    /\ workersused' = [e \in EVENTS |-> Real(workers_used_event(e)')]
    /\ workersused' \in [EVENTS -> WorkforceGrid]
    /\ \A e \in EVENTS : workers_used_event_rule(e)'
    /\ \E wmax \in WorkforceGrid, wmin \in WorkforceGrid,
          wrange \in WorkforceGrid :
          /\ workersmax' = wmax
          /\ workersmin' = wmin
          /\ workforcerange' = wrange
          \* max_workforce_event_rule
          /\ \A e \in EVENTS :
                (workersmax >= workersused[e])'
          \* min_workforce_event_rule
          /\ \A e \in EVENTS :
                (workersused[e] >= workersmin)'
          \* workforce_range_event_rule
          /\ (workforcerange = workersmax - workersmin)'
    /\ stage' = "otif"
    /\ UNCHANGED <<not_event, demand_vars, late, lateness, n_done, x, u, y,
                   solution>>
    /\ UNCHANGED solve_vars
    /\ UNCHANGED problem3_vars

\* define_otif_constraints: lateness and late indicator of each demand.
SolveOtifEvent ==
    /\ variant = "event_based"
    /\ stage = "otif"
    /\ UNCHANGED <<params, demand_vars>>
    /\ \E ln \in [DEMANDS -> TimeGrid], lt \in [DEMANDS -> Binary] :
          /\ lateness' = ln
          /\ late' = lt
          \* lateness_calculation_rule
          /\ \A d \in DEMANDS :
                (lateness[d] >= ship[d] - due[d])'
          \* lateness_nonnegative_rule
          /\ \A d \in DEMANDS :
                (lateness[d] >= 0)'
          \* late_if_positive_lateness_rule
          /\ \A d \in DEMANDS :
                (PerEpsilon * lateness[d] >= Real(1) * late[d])'
          \* not_late_if_zero_lateness_rule
          /\ \A d \in DEMANDS :
                (lateness[d] <= M_event * late[d])'
    /\ \E tc \in terminations :
          /\ termination' = tc
          /\ loaded' = solve_simple(tc).loaded
          /\ result' = solve_simple(tc).result
    /\ stage' = IF loaded' THEN "solved" ELSE "unloaded"
    /\ UNCHANGED <<not_event, start, complete, y, t_event, started,
                   notcomplete, is_active, n_done, x, u, workersused,
                   workersmax, workersmin, workforcerange, solution>>
    /\ UNCHANGED problem3_vars

\* PackingScheduleModelProblem4_1_c2.get_solution: an entry per
\* x[i, j] > 0.5; float() of a solver value is the value.
get_solution_event ==
    LET hits == InLoopOrder({e \in ORDERS \X LINES : 2 * x2(e[1], e[2]) > 1})
    IN  [assignments |->
            [k \in 1..Len(hits) |->
                [order |-> hits[k][1], line |-> hits[k][2],
                 type |-> order_type[hits[k][1]],
                 start |-> start[hits[k][1]],
                 completion |-> complete[hits[k][1]],
                 duration |-> complete[hits[k][1]] - start[hits[k][1]]]],
         workforce_events |-> [e \in EVENTS |-> workersused[e]],
         workforce_summary |->
            [max |-> workersmax, min |-> workersmin, range |-> workforcerange],
         event_times |-> [e \in EVENTS |-> t_event[e]],
         demands |->
            [d \in DEMANDS |->
                [demand |-> d, type |-> prodtype[d], quantity |-> qty[d],
                 due_date |-> due[d], ship_time |-> ship[d]]],
         inventory |-> [v \in TYPES |-> [d \in DEMANDS |-> inv[v, d]]],
         shipped |->
            [d \in DEMANDS |->
                LET with == InLoopOrder({<<d1>> : d1 \in
                                {k \in DEMANDS : 2 * shipped[k, d] > 1}})
                IN  [n \in 1..Len(with) |-> with[n][1]]],
         otif |->
            [d \in DEMANDS |-> [lateness |-> lateness[d], late |-> late[d]]],
         line_utilization |-> [j \in LINES |-> u[j]]]

GetSolutionEvent ==
    /\ variant = "event_based"
    /\ stage = "solved"
    /\ solution' = get_solution_event
    /\ stage' = "extracted"
    /\ UNCHANGED <<params, not_event, event_vars, ship, inv, late, lateness,
                   n_done, x, u, workersused, workersmax, workersmin,
                   workforcerange>>
    /\ UNCHANGED solve_vars
    /\ UNCHANGED problem3_vars

Next ==
    \/ SolveAssignment
    \/ SolveCapacity
    \/ SolveWorker
    \/ SolveMovement
    \/ SolveTimes
    \/ SolveWorkforceExplicit
    \/ SolveLateness
    \/ SolveShippingExplicit
    \/ SolveWipExplicit
    \/ GetSolution
    \/ SolveAssignmentSimple
    \/ SolveCapacitySimple
    \/ SolveTimesSimple
    \/ SolveShippingSimple
    \/ SolveWipSimple
    \/ SolveHasInventorySimple
    \/ SolveWorkforceSimple
    \/ SolveLateSimple
    \/ GetSolutionSimple
    \/ SolveAssignment41
    \/ SolveCapacity41
    \/ SolveShipping41
    \/ SolveWip41
    \/ SolveWorkforce41
    \/ GetSolution41
    \/ SolveAssignmentEvent
    \/ SolveCapacityEvent
    \/ SolveShippingEvent
    \/ SolveWorkforceEvent
    \/ SolveOtifEvent
    \/ GetSolutionEvent

(***************************************************************************)
(* Construction from input arrays whose shapes may differ from the         *)
(* declared counts.  No constructor inspects a shape: the index sets come  *)
(* from data['n_orders'], data['n_lines'], ... and each Param reads        *)
(* data[name][i-1, j-1] for the declared indices only.  Reading past the   *)
(* end of an array raises IndexError while the Param is built, before any  *)
(* constraint; entries beyond the declared counts are never read.          *)
(***************************************************************************)
DeclaredShapes ==
    [processing_time |-> <<n_orders, n_lines>>, due_date |-> <<n_orders>>]

\* one dimension of one array is off by one
MalformedShapes ==
    {[DeclaredShapes EXCEPT !.processing_time = <<n_orders + d, n_lines>>] :
        d \in {-1, 1}} \cup
    {[DeclaredShapes EXCEPT !.processing_time = <<n_orders, n_lines + d>>] :
        d \in {-1, 1}} \cup
    {[DeclaredShapes EXCEPT !.due_date = <<n_orders + d>>] : d \in {-1, 1}}

\* some declared index lies outside an array
index_error(sh) ==
    \/ \E i \in ORDERS, j \in LINES :
          i - 1 >= sh.processing_time[1] \/ j - 1 >= sh.processing_time[2]
    \/ \E i \in ORDERS : i - 1 >= sh.due_date[1]

InitMalformed ==
    /\ variant = "worker_explicit"
    /\ ConstrainedCapacity
    /\ inv0 = NoInitialInventory
    /\ order_type = OneType
    /\ setup_time = NoSetupTensor
    /\ NoDemands
    /\ shapes \in MalformedShapes
    /\ time_limit = <<>>
    /\ stage = IF index_error(shapes) THEN "failed" ELSE "assign"
    /\ NoValues

\* solve() is called with a time limit
InitTimeLimited ==
    /\ shapes = DeclaredShapes
    /\ time_limit = <<TimeLimit>>
    /\ \/ InitWorkerExplicit /\ ConstrainedCapacity
       \/ InitSimple /\ p = LongestP
       \/ InitProblem41 /\ p = LongestP /\ inv0 = NoInitialInventory

Init ==
    \/ /\ shapes = DeclaredShapes
       /\ time_limit = <<>>
       /\ InitWorkerExplicit \/ InitProblem3 \/ InitSimple \/ InitProblem41
                             \/ InitEvent
    \/ InitMalformed
    \/ InitTimeLimited

Spec == Init /\ [][Next]_vars

(***************************************************************************)
(* Properties.                                                             *)
(***************************************************************************)
WorkerExplicit == variant \in ExplicitVariants

Problem3 == variant = "problem_3"

Simple == variant = "problem_4"

Problem41 == variant = "problem_4_1"

EventBased == variant = "event_based"

\* the orders whose interval [start, start + p) on line j covers slot tau
Covering(j, tau) ==
    {e \in x : e[2] = j /\ e[3] <= tau /\ tau < e[3] + p[e[1], j]}

\* C1: in the discrete-time models every order whose assignment row satisfies
\* one_assignment has exactly one index tuple with x = 1, and get_solution
\* returns exactly n_orders assignment entries, one per order.
C1_ExactlyOneAssignment ==
    /\ WorkerExplicit \/ Problem41 =>
          \A i \in 1..n_done : Cardinality({e \in x : e[1] = i}) = 1
    /\ stage = "extracted" /\ (WorkerExplicit \/ Problem41) =>
          /\ Len(solution.assignments) = n_orders
          /\ \A i \in ORDERS :
                Cardinality({k \in 1..Len(solution.assignments) :
                                solution.assignments[k].order = i}) = 1

C1_Witness ==
    /\ WorkerExplicit
    /\ stage = "extracted"
    /\ Len(solution.assignments) = n_orders
    /\ \E k \in 1..n_orders : solution.assignments[k].time > 1

\* C2: once line_capacity holds, for every line j and every slot tau in 1..T
\* at most one order assigned to j has start <= tau < start + p[i, j].
C2_AtMostOneOrderPerLineSlot ==
    (WorkerExplicit \/ Simple) /\ stage \notin {"assign", "capacity"} =>
        \A j \in LINES, tau \in TIME :
            Cardinality({e[1] : e \in Covering(j, tau)}) <= 1

C2_Witness ==
    /\ WorkerExplicit
    /\ stage = "worker"
    /\ \E e \in x, f \in x :
          /\ e[1] # f[1] /\ e[2] = f[2]
          /\ p[e[1], e[2]] > 1
          /\ f[3] = e[3] + p[e[1], e[2]]

\* C3: in the discrete-time models time_start[i] is the slot t with
\* x[i, ., t, .] = 1 and time_completion[i] = t + p[i, assigned line]; in the
\* event-based model complete[i] = start[i] + p[type(i), assigned line], and
\* complete[i] = start[i] when order i is unassigned.
C3_CompletionIsStartPlusProcessing ==
    /\ WorkerExplicit /\ stage \in {"late", "solved", "extracted"} =>
          \A i \in ORDERS :
              \E e \in x :
                  /\ e[1] = i
                  /\ time_start[i] = e[3]
                  /\ time_completion[i] = time_start[i] + p[i, e[2]]
    /\ EventBased /\ stage # "assign" =>
          \A i \in ORDERS :
              /\ \A j \in LINES :
                    <<i, j>> \in x =>
                        complete[i] = start[i] + p[order_type[i], j]
              /\ (\A j \in LINES : <<i, j>> \notin x) => complete[i] = start[i]

C3_Witness ==
    /\ WorkerExplicit
    /\ stage = "late"
    /\ \E e \in x :
          /\ p[e[1], e[2]] > 1
          /\ \E j \in LINES : p[e[1], j] # p[e[1], e[2]]
          /\ time_completion[e[1]] = e[3] + p[e[1], e[2]]

Max(k, n) == IF k >= n THEN k ELSE n

\* C4: in every solution of the OTIF constraints, late[i] = 1 if and only
\* if lateness[i] > 0.
C4_LateIffPositiveLateness ==
    WorkerExplicit /\ stage \in {"solved", "extracted"} =>
        \A i \in ORDERS : (late[i] = 1) <=> (lateness[i] > 0)

WorkforceSolved == stage \in {"solved", "extracted"}

\* C6: in the Problem_4 model, for every order i and slot t in 0..T:
\* inv[i, t] >= 0, inv[i, 0] = initial_inventory[i], inv[i, t] = inv[i, t-1]
\* + prod[i, t] - ship[i, t], and inv[i, t] = initial_inventory[i]
\* + (1 if timecompletion[i] <= t) - (1 if timeship[i] <= t).
C6_InventoryBalance ==
    Simple /\ stage \notin {"assign", "capacity", "otif", "shipping", "wip"} =>
        \A i \in ORDERS, t \in TIME_WITH_ZERO :
            /\ inv[i, t] >= 0
            /\ inv[i, 0] = inv0[i]
            /\ t > 0 => inv[i, t] = inv[i, t - 1] + prod[i, t] - ship2(i, t)
            /\ inv[i, t] = inv0[i]
                    + (IF timecompletion[i] <= t THEN 1 ELSE 0)
                    - (IF timeship[i] <= t THEN 1 ELSE 0)

C6_Witness ==
    /\ Simple
    /\ stage = "solved"
    /\ \E i \in ORDERS :
          /\ timeship[i] > timecompletion[i]
          /\ p[i, 1] # p[i, 2]
          /\ inv[i, timecompletion[i] - 1] = inv0[i]
          /\ inv[i, timecompletion[i]] = inv0[i] + 1
          /\ inv[i, n_timeslots] = inv0[i]

\* C7: workersmin <= workersused[t] <= workersmax for every slot or event t,
\* workforcerange = workersmax - workersmin, and the extracted
\* workforce_summary has range = max - min.
C7_WorkforceRange ==
    /\ (Simple \/ Problem41) /\ WorkforceSolved =>
          /\ \A t \in TIME :
                workersmin <= workersused[t] /\ workersused[t] <= workersmax
          /\ workforcerange = workersmax - workersmin
    /\ EventBased /\ WorkforceSolved =>
          /\ \A e \in EVENTS :
                workersmin <= workersused[e] /\ workersused[e] <= workersmax
          /\ workforcerange = workersmax - workersmin
    /\ (Simple \/ Problem41 \/ EventBased) /\ stage = "extracted" =>
          solution.workforce_summary.range =
              solution.workforce_summary.max - solution.workforce_summary.min

C7_Witness ==
    /\ Problem41
    /\ stage = "extracted"
    /\ workersmin > 0
    /\ \E t \in TIME : workersmin < workersused[t]
    /\ solution.workforce_summary.range = Real(1)
    /\ solution.workforce_summary.max = Real(2)

\* C8: u[j] = 1 if and only if at least one order is assigned to line j.
C8_LineInUseIffAssigned ==
    WorkerExplicit /\ stage \notin {"assign", "capacity"} =>
        \A j \in LINES : (u[j] = 1) <=> (\E e \in x : e[2] = j)

C8_Witness ==
    /\ WorkerExplicit
    /\ stage = "worker"
    /\ \E j \in LINES, k \in LINES : u[j] = 1 /\ u[k] = 0

\* C9: the number of orders assigned to worker w whose interval covers slot
\* tau equals w_working[w, tau], which is 0 or 1 and is 0 whenever
\* worker_availability[w, tau] = 0.
C9_WorkerCoverIsWorking ==
    WorkerExplicit /\ stage \notin {"assign", "capacity", "worker"} =>
        \A w \in WORKERS, tau \in TIME :
            /\ Cardinality({e \in x : /\ e[4] = w
                                      /\ e[3] <= tau
                                      /\ tau < e[3] + p[e[1], e[2]]})
                  = w_working[w, tau]
            /\ w_working[w, tau] \in {0, 1}
            /\ a[w, tau] = 0 => w_working[w, tau] = 0

C9_Witness ==
    /\ WorkerExplicit
    /\ stage = "otif"
    /\ \E w \in WORKERS, tau \in TIME :
          /\ a[w, tau] = 0
          /\ \E t \in TIME : t < tau /\ w_working[w, t] = 1
          /\ \E t \in TIME : t > tau /\ w_working[w, t] = 1

\* C10: in the event-based model, any two distinct orders i, k assigned to
\* the same line have start[k] >= complete[i] + setup_time[type(i), type(k)]
\* or start[i] >= complete[k] + setup_time[type(k), type(i)].
C10_NoOverlapOnLine ==
    EventBased /\ stage \notin {"assign", "capacity"} =>
        \A i \in ORDERS, k \in ORDERS, j \in LINES :
            i # k /\ <<i, j>> \in x /\ <<k, j>> \in x =>
                \/ start[k] >= complete[i]
                                + setup_time[order_type[i], order_type[k]]
                \/ start[i] >= complete[k]
                                + setup_time[order_type[k], order_type[i]]

C10_Witness ==
    /\ EventBased
    /\ stage = "workforce"
    /\ \E e \in OrderPairs, j \in LINES :
          /\ <<e[1], j>> \in x
          /\ <<e[2], j>> \in x
          /\ y[e] = 0
          /\ setup_time[order_type[e[2]], order_type[e[1]]] > 0
          /\ setup_time[order_type[e[1]], order_type[e[2]]] = 0
          /\ start[e[1]] = complete[e[2]]
                              + setup_time[order_type[e[2]], order_type[e[1]]]

\* C11: in the Problem_4 model, ship[i, t] = 1 implies
\* inv[i, t-1] + prod[i, t] >= 1, and hasinv[i, t] = 1 implies inv[i, t] >= 1.
C11_ShipOnlyFromStock ==
    Simple /\ stage \in {"workforce", "solved", "extracted"} =>
        \A i \in ORDERS, t \in TIME :
            /\ ship2(i, t) = 1 => inv[i, t - 1] + prod[i, t] >= 1
            /\ hasinv[i, t] = 1 => inv[i, t] >= 1

C11_Witness ==
    /\ Simple
    /\ stage = "workforce"
    /\ \E i \in ORDERS, t \in TIME :
          /\ ship2(i, t) = 1
          /\ hasinv[i, t] = 1
          /\ prod[i, t] = 1
          /\ inv[i, t - 1] = 1
          /\ inv[i, t] = 1

\* C12: for an input with initial inventory 0 and a processing time that
\* fits the horizon, the Problem_4 model is feasible: a schedule that
\* satisfies the assignment, capacity, time, shipping and wip constraints and
\* ships every order at or after its completion extends to a solution of the
\* has-inventory constraints.
C12_ScenarioAFeasible ==
    /\ Simple
    /\ inv0 = NoInitialInventory
    /\ stage = "inventory"
    /\ \A i \in ORDERS : ship_after_complete_rule(i)
    => ENABLED SolveHasInventorySimple

CoveredEarlyDemand(d) ==
    /\ n_demands = 1
    /\ inv0[prodtype[d]] >= qty[d]
    /\ \A i \in ORDERS, j \in LINES : due[d] < p[order_type[i], j]

\* C14: in the event-based model, for a single demand covered by the initial
\* inventory and due before any order could complete, every solution that
\* ships the demand at its due date consumes no production order:
\* prodorder[i, d] = 0 for every order, prodbefore[u, d] = 0 and
\* inv[u, d] = inv0[u] - qty[d] for the demand's type u; such solutions exist.
C14_DemandServedFromInventory ==
    EventBased /\ stage \in {"workforce", "otif", "solved", "extracted"} =>
        \A d \in DEMANDS :
            CoveredEarlyDemand(d) /\ ship[d] = due[d] =>
                /\ \A i \in ORDERS : prodorder[i, d] = 0
                /\ prodbefore[prodtype[d], d] = 0
                /\ inv[prodtype[d], d] = inv0[prodtype[d]] - qty[d]

C14_Witness ==
    /\ EventBased
    /\ stage = "solved"
    /\ \E d \in DEMANDS :
          /\ CoveredEarlyDemand(d)
          /\ ship[d] = due[d]
          /\ late[d] = 0
          /\ \A i \in ORDERS : prodorder[i, d] = 0
          /\ inv[prodtype[d], d] = 0
    /\ \A i \in ORDERS : \E j \in LINES : x2(i, j) = 1

\* C15: in every solution of the Problem_4_1 model, for every initial
\* inventory, the slot in which an order ships is no earlier than its
\* completion time, start + p[i, assigned line].
C15_ShipNoEarlierThanCompletion ==
    Problem41 /\ stage \in {"workforce", "solved", "extracted"} =>
        \A e \in x, t \in TIME :
            e[1] \in ORDERS /\ ship2(e[1], t) = 1 => t >= e[3] + p[e[1], e[2]]

\* C16: in every solution of the Problem_4_1 model no two orders on the same
\* line have overlapping intervals [start, completion): the overlap check of
\* verify_solution passes on the extracted assignments, also when an interval
\* runs past the horizon.
C16_NoOverlapPastHorizon ==
    Problem41 /\ stage = "extracted" =>
        \A k, n \in DOMAIN solution.assignments :
            LET e == solution.assignments[k]
                f == solution.assignments[n]
            IN  k # n /\ e.line = f.line =>
                    \A t \in e.start..(e.completion - 1) :
                        t \notin f.start..(f.completion - 1)

\* C17: in every solution of the Problem_4 model the lateness of an order
\* is at least its completion time minus its due date, and an order that
\* completes after its due date has late = 1 and a positive OTIF objective
\* term.
C17_LatenessEnforced ==
    Simple /\ stage \in {"solved", "extracted"} =>
        \A i \in ORDERS :
            /\ lateness[i] >= timecompletion[i] - due[i]
            /\ timecompletion[i] > due[i] => late[i] = 1 /\ otif_term(i) > 0

\* C18: construction fails, before any constraint is built, whenever the
\* shape of an input array differs from the declared counts in any
\* dimension, smaller or larger.
C18_MalformedShapesFail == shapes # DeclaredShapes => stage = "failed"

\* C19: for every solve() implementation, when the solver stops with an
\* incumbent and the condition feasible, the values are loaded and the
\* returned objective_value is not None; when the condition is neither
\* optimal nor feasible, objective_value is None and no values are loaded.
C19_FeasibleIncumbentReturned ==
    /\ termination = "feasible" => loaded /\ result.objective_value # None
    /\ termination \notin {None, "optimal", "feasible"} =>
            ~loaded /\ result.objective_value = None

\* C20: in the event-based model, two orders that are assigned to different
\* lines are never restricted by the no-overlap constraints: whatever their
\* start and completion times within the horizon and whatever the setup
\* times, some value of y[i, k] satisfies no_overlap_forward and
\* no_overlap_backward for every line.
C20_DifferentLinesNeverRestricted ==
    /\ EventBased
    /\ stage = "capacity"
    /\ \A e \in OrderPairs : \E j1 \in LINES, j2 \in LINES :
          j1 # j2 /\ x2(e[1], j1) = 1 /\ x2(e[2], j2) = 1
    => ENABLED SolveCapacityEvent

\* C21: the movement indicator tracks line switches: for every worker the
\* least value the movement constraints admit for the sum of m[w, t] over
\* the slots (one for each slot t > 1 in which some line forces m[w, t] to 1)
\* equals the number of line switches count_worker_movements finds in the
\* extracted schedule.
C21_MovementCountsLineSwitches ==
    Problem3 /\ stage = "extracted" =>
        \A w \in DOMAIN count_worker_movements(solution) :
            Cardinality({t \in TIME : t > 1 /\ \E j \in LINES :
                            worker_movement_expr(w, j, t) >= 1})
                = count_worker_movements(solution)[w]

\* C22: the movement constraints never make a schedule infeasible: every x
\* that satisfies the assignment, capacity and worker constraints admits
\* binary values m[w, t] that satisfy worker_movement for all w, j and t > 1.
C22_MovementNeverInfeasible ==
    Problem3 /\ stage = "movement" => ENABLED SolveMovement

C22_Witness ==
    /\ Problem3
    /\ stage = "otif"
    /\ \E w \in WORKERS, t \in TIME : t > 1 /\ m[w, t] = 1
    /\ \E w \in WORKERS : m[w, 1] = 1
    /\ \E w \in WORKERS, j \in LINES, t \in TIME :
          t > 1 /\ worker_movement_expr(w, j, t) = 1

\* C23: with shipping decisions every feasible solution classifies each
\* order exactly: ship_late[i] = 1 iff time_ship[i] > due[i], ship_early[i]
\* = 1 iff time_ship[i] < due[i], and an order that ships exactly on its due
\* date has ship_early[i] = ship_late[i] = 0.
C23_ShipTimingExact ==
    Problem3 /\ stage \in {"wip", "solved", "unloaded", "extracted"} =>
        \A i \in ORDERS :
            /\ ship_late[i] = 1 <=> time_ship[i] > due[i]
            /\ ship_early[i] = 1 <=> time_ship[i] < due[i]
            /\ time_ship[i] = due[i] => ship_early[i] = 0 /\ ship_late[i] = 0

\* C24: in every feasible solution wip_indicator[i, t] is 1 in every slot in
\* which order i is being processed or has positive inventory and 0 in every
\* other slot, so wip[t] is the number of orders in process or in stock.
C24_WipIndicatorExact ==
    Problem3 /\ stage \in {"solved", "unloaded", "extracted"} =>
        /\ \A i \in ORDERS, t \in TIME :
              wip_indicator[i, t] = 1
                  <=> wip_indicator_expr(i, t) >= 1 \/ inv[i, t] > 0
        /\ \A t \in TIME :
              wip[t] = Cardinality({i \in ORDERS :
                            wip_indicator_expr(i, t) >= 1 \/ inv[i, t] > 0})

\* C25: in every feasible solution of the event-based model and for every
\* event e, started[i, e] = 1 iff start[i] <= t_event[e], notcomplete[i, e]
\* = 1 iff complete[i] > t_event[e], and workersused[e] is the number of
\* orders i with start[i] <= t_event[e] < complete[i].
C25_EventIndicatorsExact ==
    EventBased /\ stage \in {"otif", "solved", "unloaded", "extracted"} =>
        \A e \in EVENTS :
            /\ t_event[e] = event_time(e)
            /\ \A i \in ORDERS :
                  /\ started[i, e] = 1 <=> start[i] <= t_event[e]
                  /\ notcomplete[i, e] = 1 <=> complete[i] > t_event[e]
            /\ workersused[e] =
                  Real(Cardinality({i \in ORDERS :
                          start[i] <= t_event[e] /\ t_event[e] < complete[i]}))

\* two orders overlap at an event, one order has not started at an event
\* and one is complete at an event
C25_Witness ==
    /\ EventBased
    /\ stage = "otif"
    /\ \E e \in EVENTS : workersused[e] = Real(2)
    /\ \E i \in ORDERS, e \in EVENTS : started[i, e] = 0
    /\ \E i \in ORDERS, e \in EVENTS :
          started[i, e] = 1 /\ notcomplete[i, e] = 0 /\ start[i] < complete[i]

\* C26: in the event-based model, for every input whose initial inventory
\* covers all demands and whose due dates are within [0, T_max], the
\* solution that assigns no order to any line satisfies all constraints.
\* The unassigned orders are given complete[i] = T_max, the value that is
\* most favourable to the only rules that bind them.
C26_UnscheduledAlwaysFeasible ==
    /\ EventBased /\ stage = "capacity" /\ x = {} => ENABLED SolveCapacityEvent
    /\ (/\ EventBased /\ stage = "shipping" /\ x = {}
        /\ n_demands >= 1
        /\ \A v \in TYPES :
              inv0[v] >= Sum({<<d, qty[d]>> :
                              d \in {k \in DEMANDS : prodtype[k] = v}})
        /\ \A d \in DEMANDS : 0 <= due[d] /\ due[d] <= T_max_param
        /\ \A i \in ORDERS : complete[i] = T_max_param)
           => ENABLED SolveShippingEvent
    /\ EventBased /\ stage = "workforce" /\ x = {} => ENABLED SolveWorkforceEvent
    /\ EventBased /\ stage = "otif" /\ x = {} => ENABLED SolveOtifEvent

C29_LateBigMExcludesNothing ==
    variant = "worker_explicit" /\ stage = "late"
        /\ (\A i \in ORDERS : due[i] >= 1 /\ time_completion[i] \in TIME)
            => ENABLED SolveLateness

\* C30: for every well-shaped input of the event-based model, with any
\* n_orders >= 1 and n_demands >= 1, also n_demands > n_orders, building the
\* objective succeeds: the priority the OTIF term reads is defined for every
\* demand d.
C30_ObjectiveBuilds ==
    EventBased /\ n_demands >= 1 =>
        /\ \A d \in DEMANDS : d \in DOMAIN priority
        /\ stage # "failed"

====
